---- MODULE Spec2Model ----
(***************************************************************************)
(* A model of the border property handler (src/src/properties/border.rs)   *)
(* and of the colour fallback planner it calls (src/src/values/color.rs).  *)
(*                                                                         *)
(* A declaration (Property) is a record [id, val]: id is the name of the   *)
(* Property variant, val the tuple of its component values.  Widths,       *)
(* styles and colours are strings; Absent stands for Option::None.         *)
(***************************************************************************)
EXTENDS Integers, Sequences, FiniteSets, TLC

Absent == "absent"

(***************************************************************************)
(* Colours (CssColor).  A colour is named by a string; Variant gives the   *)
(* enum variant that holds it and Point the colour it denotes.  Point "x"  *)
(* lies outside the sRGB gamut, "r" is an 8-bit colour, "n" is a colour    *)
(* with a `none` component.  A conversion changes the colour space; the    *)
(* conversion to RGBA also brings the colour to 8 bits per channel.        *)
(***************************************************************************)
AllColors ==
  { "currentColor", "red", "rgb(x)", "rgb(n)",
    "lab(x)", "lch(x)", "oklab(x)", "oklch(x)", "lab(n)", "lab(r)",
    "color(display-p3 x)", "color(display-p3 n)", "color(display-p3 r)",
    "color(rec2020 x)", "hsl(none 0% 0%)" }

Variant(c) ==
  CASE c = "currentColor" -> "CurrentColor"
    [] c \in {"red", "rgb(x)", "rgb(n)"} -> "RGBA"
    [] c \in {"lab(x)", "lab(n)", "lab(r)"} -> "LAB"
    [] c = "lch(x)" -> "LCH"
    [] c = "oklab(x)" -> "OKLAB"
    [] c = "oklch(x)" -> "OKLCH"
    [] c \in {"color(display-p3 x)", "color(display-p3 n)", "color(display-p3 r)"} -> "DisplayP3"
    [] c = "color(rec2020 x)" -> "Rec2020"
    [] c = "hsl(none 0% 0%)" -> "Float"

Point(c) ==
  CASE c \in {"red", "lab(r)", "color(display-p3 r)"} -> "r"
    [] c \in {"rgb(n)", "lab(n)", "color(display-p3 n)", "hsl(none 0% 0%)"} -> "n"
    [] OTHER -> "x"

\* The result of a panic (unreachable!() or unwrap() of None).
Panic == "panic"

\* RGBA::from(&CssColor): currentColor cannot be converted.
ToRgb(c) ==
  CASE Variant(c) = "CurrentColor" -> Panic
    [] Point(c) = "r" -> "red"
    [] Point(c) = "n" -> "rgb(n)"
    [] OTHER -> "rgb(x)"

\* P3::from(&CssColor)
ToP3(c) ==
  CASE Variant(c) = "CurrentColor" -> Panic
    [] Point(c) = "r" -> "color(display-p3 r)"
    [] Point(c) = "n" -> "color(display-p3 n)"
    [] OTHER -> "color(display-p3 x)"

\* LAB::from(&CssColor)
ToLab(c) ==
  CASE Variant(c) = "CurrentColor" -> Panic
    [] Point(c) = "r" -> "lab(r)"
    [] Point(c) = "n" -> "lab(n)"
    [] OTHER -> "lab(x)"

(***************************************************************************)
(* ColorFallbackKind: a bit set held in a u8.                              *)
(***************************************************************************)
RGB == 1
P3 == 2
LAB == 4
OKLAB == 8

KindBits == {RGB, P3, LAB, OKLAB}

Contains(f, k) == (f \div k) % 2 = 1

BitsOf(f) == {k \in KindBits : Contains(f, k)}

RECURSIVE SumOf(_)
SumOf(S) == IF S = {} THEN 0 ELSE LET k == CHOOSE e \in S : TRUE IN k + SumOf(S \ {k})

Union(f, g) == SumOf(BitsOf(f) \cup BitsOf(g))

Remove(f, g) == SumOf(BitsOf(f) \ BitsOf(g))

\* The highest set bit (empty for the empty set).
Highest(f) ==
  IF f = 0 THEN 0 ELSE CHOOSE k \in BitsOf(f) : \A j \in BitsOf(f) : j <= k

\* The lowest set bit.
Lowest(f) ==
  IF f = 0 THEN 0 ELSE CHOOSE k \in BitsOf(f) : \A j \in BitsOf(f) : k <= j

\* self | (self.bits() - 1), truncated to the four known bits.
AndBelow(f) == IF f = 0 THEN 0 ELSE Union(f, (f - 1) % 16)

(***************************************************************************)
(* Browser targets.  has: the handler was given targets.  The other fields *)
(* are the answers of the compatibility data (Feature::is_compatible,      *)
(* Feature::is_partially_compatible, context.is_supported) for them.       *)
(* lab and p3 are "full" (compatible), "partial" or "none".                *)
(***************************************************************************)
Support == {"full", "partial", "none"}

AllTargets ==
  [ has : BOOLEAN, logical : BOOLEAN, logical_shorthand : BOOLEAN,
    oklab : BOOLEAN, lab : Support, p3 : Support, color_function : BOOLEAN ]

\* get_possible_fallbacks: all levels below and including the authored
\* colour space ...
AuthoredFallbacks(v, T) ==
  CASE v \in {"CurrentColor", "RGBA", "Float"} -> 0
    [] v \in {"LAB", "LCH"} -> AndBelow(LAB)
    [] v \in {"OKLAB", "OKLCH"} -> AndBelow(OKLAB)
    [] v = "DisplayP3" -> AndBelow(P3)
    [] OTHER -> IF T.color_function THEN 0 ELSE AndBelow(LAB)

\* The OKLAB check removing nothing.
RemoveForOklabNothing(fallbacks, T) == fallbacks

\* ... less the levels the targets make needless: the OKLAB check,
RemoveForOklab(fallbacks, T) ==
  IF Contains(fallbacks, OKLAB) /\ T.oklab
  THEN Remove(fallbacks, AndBelow(LAB)) ELSE fallbacks

\* the LAB check,
RemoveForLab(fallbacks, T) ==
  IF Contains(fallbacks, LAB)
  THEN IF T.lab = "full" THEN Remove(fallbacks, AndBelow(P3))
       ELSE IF T.lab = "partial" THEN Remove(fallbacks, P3)
       ELSE fallbacks
  ELSE fallbacks

\* The P3 check keeping RGB when every target has display-p3.
RemoveForP3KeepingRgb(fallbacks, T) ==
  IF Contains(fallbacks, P3) /\ T.p3 # "full" /\ Highest(fallbacks) # P3 /\ T.p3 # "partial"
  THEN Remove(fallbacks, P3) ELSE fallbacks

\* and the P3 check.
RemoveForP3(fallbacks, T) ==
  IF Contains(fallbacks, P3)
  THEN IF T.p3 = "full" THEN Remove(fallbacks, RGB)
       ELSE IF Highest(fallbacks) # P3 /\ T.p3 # "partial" THEN Remove(fallbacks, P3)
       ELSE fallbacks
  ELSE fallbacks

GetPossibleFallbacks(c, T) ==
  RemoveForP3(RemoveForLab(RemoveForOklab(AuthoredFallbacks(Variant(c), T), T), T), T)

\* fallbacks - fallbacks.lowest()
WithoutLowest(fallbacks) == Remove(fallbacks, Lowest(fallbacks))

\* fallbacks - fallbacks.highest()
WithoutHighest(fallbacks) == Remove(fallbacks, Highest(fallbacks))

GetNecessaryFallbacks(c, T) == WithoutHighest(GetPossibleFallbacks(c, T))

\* CssColor::get_fallback
GetFallback(c, kind) ==
  IF Variant(c) = "RGBA" THEN c
  ELSE CASE kind = RGB -> ToRgb(c)
         [] kind = P3 -> ToP3(c)
         [] kind = LAB -> ToLab(c)
         [] OTHER -> Panic

\* CssColor::get_fallbacks: [res |-> the fallback colours, self |-> the
\* colour left in place of the original].
PushFallbacks(c, fallbacks) ==
  [ res |-> (IF Contains(fallbacks, RGB) THEN <<ToRgb(c)>> ELSE <<>>)
              \o (IF Contains(fallbacks, P3) THEN <<ToP3(c)>> ELSE <<>>),
    self |-> IF Contains(fallbacks, LAB) THEN ToLab(c) ELSE c ]

GetFallbacks(c, T) == PushFallbacks(c, GetNecessaryFallbacks(c, T))

(***************************************************************************)
(* Property ids of the border family.                                      *)
(***************************************************************************)
PhysicalSides == {"border_top", "border_bottom", "border_left", "border_right"}

LogicalSides ==
  {"border_block_start", "border_block_end", "border_inline_start", "border_inline_end"}

SideNames == PhysicalSides \cup LogicalSides

Fields == {"width", "style", "color"}

\* The shorthand property of a side state.
SideProp ==
  [ border_top |-> "BorderTop", border_bottom |-> "BorderBottom",
    border_left |-> "BorderLeft", border_right |-> "BorderRight",
    border_block_start |-> "BorderBlockStart", border_block_end |-> "BorderBlockEnd",
    border_inline_start |-> "BorderInlineStart", border_inline_end |-> "BorderInlineEnd" ]

Suffix == [width |-> "Width", style |-> "Style", color |-> "Color"]

\* The longhand property of a field of a side state.
LonghandId(side, field) == SideProp[side] \o Suffix[field]

SideCategory(side) == IF side \in PhysicalSides THEN "Physical" ELSE "Logical"

SideShorthandIds == {SideProp[s] : s \in SideNames}

LonghandIds == {LonghandId(s, f) : s \in SideNames, f \in Fields}

AxisShorthandIds == {"BorderBlock", "BorderInline"}

AxisLonghandIds ==
  { "BorderBlockColor", "BorderBlockWidth", "BorderBlockStyle",
    "BorderInlineColor", "BorderInlineWidth", "BorderInlineStyle" }

RectIds == {"BorderWidth", "BorderStyle", "BorderColor"}

\* is_border_property without the four-sided and two-sided shorthands.
is_side_property(property_id) ==
  property_id \in LonghandIds \cup SideShorthandIds

\* The property ids is_border_property accepts.
BorderPropertyIds ==
  LonghandIds \cup SideShorthandIds \cup AxisShorthandIds \cup AxisLonghandIds
    \cup RectIds \cup {"Border"}

is_border_property(property_id) == property_id \in BorderPropertyIds

\* The property ids CSS Logical Properties defines for borders.
LogicalPropertyIds ==
  {LonghandId(s, f) : s \in LogicalSides, f \in Fields}
    \cup {SideProp[s] : s \in LogicalSides} \cup AxisShorthandIds \cup AxisLonghandIds

(***************************************************************************)
(* The state of a flush in progress: s the eight side states, out the      *)
(* declarations pushed to dest, rules the pairs given to add_logical_rule, *)
(* calls the log of prop! invocations with what each pushed, panic whether *)
(* the handler has panicked.                                               *)
(***************************************************************************)
Decl(id, val) == [id |-> id, val |-> val]

Rule(ltr, rtl) == [ltr |-> ltr, rtl |-> rtl]

\* prop! arms for the inline sides with the inline-end pairs not swapped.
InlineLoweringUnswapped ==
  [ BorderInlineStart |-> <<"BorderLeft", "BorderRight">>,
    BorderInlineStartWidth |-> <<"BorderLeftWidth", "BorderRightWidth">>,
    BorderInlineStartColor |-> <<"BorderLeftColor", "BorderRightColor">>,
    BorderInlineStartStyle |-> <<"BorderLeftStyle", "BorderRightStyle">>,
    BorderInlineEnd |-> <<"BorderLeft", "BorderRight">>,
    BorderInlineEndWidth |-> <<"BorderLeftWidth", "BorderRightWidth">>,
    BorderInlineEndColor |-> <<"BorderLeftColor", "BorderRightColor">>,
    BorderInlineEndStyle |-> <<"BorderLeftStyle", "BorderRightStyle">> ]

\* prop! arms for the inline sides: the LTR and RTL physical property.
InlineLowering ==
  [ BorderInlineStart |-> <<"BorderLeft", "BorderRight">>,
    BorderInlineStartWidth |-> <<"BorderLeftWidth", "BorderRightWidth">>,
    BorderInlineStartColor |-> <<"BorderLeftColor", "BorderRightColor">>,
    BorderInlineStartStyle |-> <<"BorderLeftStyle", "BorderRightStyle">>,
    BorderInlineEnd |-> <<"BorderRight", "BorderLeft">>,
    BorderInlineEndWidth |-> <<"BorderRightWidth", "BorderLeftWidth">>,
    BorderInlineEndColor |-> <<"BorderRightColor", "BorderLeftColor">>,
    BorderInlineEndStyle |-> <<"BorderRightStyle", "BorderLeftStyle">> ]

\* prop! arms for the block sides: the physical property.
BlockLowering ==
  [ BorderBlockStart |-> "BorderTop",
    BorderBlockStartWidth |-> "BorderTopWidth",
    BorderBlockStartColor |-> "BorderTopColor",
    BorderBlockStartStyle |-> "BorderTopStyle",
    BorderBlockEnd |-> "BorderBottom",
    BorderBlockEndWidth |-> "BorderBottomWidth",
    BorderBlockEndColor |-> "BorderBottomColor",
    BorderBlockEndStyle |-> "BorderBottomStyle" ]

\* The properties prop! sends through fallbacks!.
ColorCarrying ==
  {LonghandId(s, "color") : s \in SideNames} \cup SideShorthandIds
    \cup {"BorderColor", "BorderBlockColor", "BorderInlineColor",
          "BorderInline", "BorderBlock", "Border"}

\* The positions of val that hold colours.
ColorPositions(id) ==
  CASE id = "BorderColor" -> {1, 2, 3, 4}
    [] id \in {"BorderBlockColor", "BorderInlineColor"} -> {1, 2}
    [] id \in SideShorthandIds \cup {"BorderInline", "BorderBlock", "Border"} -> {3}
    [] id \in {LonghandId(s, "color") : s \in SideNames} -> {1}
    [] OTHER -> {}

\* impl_fallbacks!: the fallbacks of a value of several colours.
PushValueFallbacks(val, fallbacks) ==
  [ res |-> (IF Contains(fallbacks, RGB)
             THEN << [i \in 1..Len(val) |-> GetFallback(val[i], RGB)] >> ELSE <<>>)
            \o (IF Contains(fallbacks, P3)
                THEN << [i \in 1..Len(val) |-> GetFallback(val[i], P3)] >> ELSE <<>>),
    self |-> IF Contains(fallbacks, LAB)
             THEN [i \in 1..Len(val) |-> GetFallback(val[i], LAB)] ELSE val ]

\* The union of the necessary fallbacks of the first i colours of val.
RECURSIVE NecessaryUnion(_, _, _)
NecessaryUnion(val, i, T) ==
  IF i = 0 THEN 0
  ELSE Union(NecessaryUnion(val, i - 1, T), GetNecessaryFallbacks(val[i], T))

ImplFallbacks(val, T) == PushValueFallbacks(val, NecessaryUnion(val, Len(val), T))

\* The fallbacks fb of the colour at position p, each in a copy of val.
InPlace(val, p, fb) ==
  [ res |-> [k \in 1..Len(fb.res) |-> [val EXCEPT ![p] = fb.res[k]]],
    self |-> [val EXCEPT ![p] = fb.self] ]

\* FallbackValues::get_fallbacks for the value of a colour-carrying property.
ValueFallbacks(id, val, T) ==
  IF id \in {"BorderColor", "BorderBlockColor", "BorderInlineColor"}
  THEN ImplFallbacks(val, T)
  ELSE InPlace(val, CHOOSE i \in ColorPositions(id) : TRUE,
               GetFallbacks(val[CHOOSE i \in ColorPositions(id) : TRUE], T))

HasPanic(val) == \E i \in 1..Len(val) : val[i] \in {Absent, Panic}

\* fallbacks! pushing the value before its fallbacks.
PushAfter(id, fb) ==
  <<Decl(id, fb.self)>> \o [k \in 1..Len(fb.res) |-> Decl(id, fb.res[k])]

FallbacksAfter(id, val, T) ==
  IF T.has THEN PushAfter(id, ValueFallbacks(id, val, T)) ELSE <<Decl(id, val)>>

\* dest.push of each fallback, then of the value left in place.
PushEach(id, fb) ==
  [k \in 1..Len(fb.res) |-> Decl(id, fb.res[k])] \o <<Decl(id, fb.self)>>

\* fallbacks!: the declarations pushed for a colour-carrying property.
Fallbacks(id, val, T) ==
  IF T.has THEN PushEach(id, ValueFallbacks(id, val, T)) ELSE <<Decl(id, val)>>

\* What prop! pushes to dest for a property it does not turn into a rule.
Pushed(id, val, T) ==
  IF id \in ColorCarrying THEN Fallbacks(id, val, T) ELSE <<Decl(id, val)>>

\* logical_prop!
LogicalProp(ltr, rtl, val) == Rule(Decl(ltr, val), Decl(rtl, val))

\* The body of prop! for property id with value val.  An unwrap of an absent
\* field while building val, or an unreachable conversion in the fallbacks,
\* panics.
Emit(F, id, val, pushed, rules) ==
  IF \E k \in 1..Len(pushed) : HasPanic(pushed[k].val)
  THEN [F EXCEPT !.panic = TRUE]
  ELSE [F EXCEPT !.out = @ \o pushed,
                 !.rules = @ \o rules,
                 !.calls = Append(@, [id |-> id, val |-> val,
                                      pushed |-> pushed, rules |-> rules])]

ExpandProp(F, id, val, T) ==
  IF F.panic THEN F
  ELSE IF HasPanic(val) THEN [F EXCEPT !.panic = TRUE]
  ELSE IF id \in DOMAIN InlineLowering /\ ~T.logical
  THEN Emit(F, id, val, <<>>,
            <<LogicalProp(InlineLowering[id][1], InlineLowering[id][2], val)>>)
  ELSE Emit(F, id, val,
            Pushed(IF id \in DOMAIN BlockLowering /\ ~T.logical
                   THEN BlockLowering[id] ELSE id, val, T),
            <<>>)

\* The invocations of prop! of one flush, expanded in the order they were
\* made.  prop! writes dest and the context only and flush_category! reads
\* neither, so the bodies run after the branching with the same effect.
RECURSIVE ExpandProps(_, _)
ExpandProps(F, T) ==
  IF F.props = <<>> THEN F
  ELSE ExpandProps(ExpandProp([F EXCEPT !.props = Tail(@)],
                              Head(F.props)[1], Head(F.props)[2], T), T)

\* An invocation prop!(id => val) in flush_category!.
Prop(F, id, val, T) == [F EXCEPT !.props = Append(@, <<id, val>>)]

(***************************************************************************)
(* BorderShorthand: the state of one side.                                 *)
(***************************************************************************)
EmptySide == [width |-> Absent, style |-> Absent, color |-> Absent]

is_valid(side) == side.width # Absent /\ side.style # Absent /\ side.color # Absent

\* to_border: unwraps the three fields (an absent field panics in Prop).
to_border(side) == <<side.width, side.style, side.color>>

set_border(val) == [width |-> val[1], style |-> val[2], color |-> val[3]]

\* std::mem::take of one field of a side.
Take(F, side, key) == [F EXCEPT !.s[side][key] = Absent]

(***************************************************************************)
(* flush_category!  q names the four sides: bs, be, is, ie are block       *)
(* start, block end, inline start and inline end.                          *)
(***************************************************************************)
PhysicalQuartet ==
  [bs |-> "border_top", be |-> "border_bottom", is |-> "border_left", ie |-> "border_right"]

LogicalQuartet ==
  [ bs |-> "border_block_start", be |-> "border_block_end",
    is |-> "border_inline_start", ie |-> "border_inline_end" ]

\* shorthand!: the four-side shorthand of one field, consuming the field.
Shorthand(F, prop, key, q, is_logical, T) ==
  LET bs == F.s[q.bs][key]
      be == F.s[q.be][key]
      is == F.s[q.is][key]
      ie == F.s[q.ie][key]
      has_prop == bs # Absent /\ be # Absent /\ is # Absent /\ ie # Absent
  IN IF has_prop /\ (~is_logical \/ (bs = be /\ be = is /\ is = ie))
     THEN Prop(Take(Take(Take(Take(F, q.bs, key), q.ie, key), q.be, key), q.is, key),
               prop, <<bs, ie, be, is>>, T)
     ELSE F

\* logical_shorthand!: the axis shorthand of one field, consuming the field.
LogicalShorthand(F, prop, key, start, end, T) ==
  LET has_prop == F.s[start][key] # Absent /\ F.s[end][key] # Absent
  IN IF has_prop
     THEN Prop(Take(Take(F, start, key), end, key),
               prop, <<F.s[start][key], F.s[end][key]>>, T)
     ELSE F

\* is_eq!
is_eq(F, q, key) ==
  /\ F.s[q.bs][key] = F.s[q.be][key]
  /\ F.s[q.is][key] = F.s[q.ie][key]
  /\ F.s[q.is][key] = F.s[q.bs][key]

\* side_diff! emitting the full border value of side `other` in every case.
SideDiffFull(F, border, other, T) ==
  Prop(F, SideProp[other], to_border(F.s[other]), T)

\* side_diff!: emit what differs between side `other` and side `border`.
SideDiff(F, border, other, T) ==
  LET b == F.s[border]
      o == F.s[other]
      eq_width == b.width = o.width
      eq_style == b.style = o.style
      eq_color == b.color = o.color
  IN IF eq_width /\ eq_style THEN Prop(F, LonghandId(other, "color"), <<o.color>>, T)
     ELSE IF eq_width /\ eq_color THEN Prop(F, LonghandId(other, "style"), <<o.style>>, T)
     ELSE IF eq_style /\ eq_color THEN Prop(F, LonghandId(other, "width"), <<o.width>>, T)
     ELSE Prop(F, SideProp[other], to_border(o), T)

\* prop_diff!
PropDiff(F, q, is_logical, border, Fallback(_), border_fallback, T) ==
  IF ~is_logical /\ is_eq(F, q, "color") /\ is_eq(F, q, "style")
  THEN Shorthand(Prop(F, "Border", to_border(F.s[border]), T),
                 "BorderWidth", "width", q, is_logical, T)
  ELSE IF ~is_logical /\ is_eq(F, q, "width") /\ is_eq(F, q, "style")
  THEN Shorthand(Prop(F, "Border", to_border(F.s[border]), T),
                 "BorderColor", "color", q, is_logical, T)
  ELSE IF ~is_logical /\ is_eq(F, q, "width") /\ is_eq(F, q, "color")
  THEN Shorthand(Prop(F, "Border", to_border(F.s[border]), T),
                 "BorderStyle", "style", q, is_logical, T)
  ELSE Fallback(IF border_fallback
                THEN Prop(F, "Border", to_border(F.s[border]), T) ELSE F)

\* The fallback block of the top_eq_bottom branch.
TopEqBottomFallback(F, q, is_logical, T) ==
  LET bs == F.s[q.bs]
      is == F.s[q.is]
      ie == F.s[q.ie]
      diff == (IF is.width # bs.width \/ ie.width # bs.width THEN 1 ELSE 0)
            + (IF is.style # bs.style \/ ie.style # bs.style THEN 1 ELSE 0)
            + (IF is.color # bs.color \/ ie.color # bs.color THEN 1 ELSE 0)
      unhandled == SideDiff(SideDiff(F, q.bs, q.is, T), q.bs, q.ie, T)
  IN IF ~is_logical THEN unhandled
     ELSE IF diff = 1
     THEN IF is.width # bs.width
          THEN Prop(F, "BorderInlineWidth", <<is.width, ie.width>>, T)
          ELSE IF is.style # bs.style
          THEN Prop(F, "BorderInlineStyle", <<is.style, ie.style>>, T)
          ELSE IF is.color # bs.color
          THEN Prop(F, "BorderInlineColor", <<is.color, ie.color>>, T)
          ELSE unhandled
     ELSE IF diff > 1 /\ is.width = ie.width /\ is.style = ie.style /\ is.color = ie.color
     THEN Prop(F, "BorderInline", to_border(is), T)
     ELSE unhandled

\* Four valid sides emitted as their four side shorthands.
FourSideShorthands(F, q, is_logical, T) ==
  Prop(Prop(Prop(Prop(F, SideProp[q.bs], to_border(F.s[q.bs]), T),
                 SideProp[q.be], to_border(F.s[q.be]), T),
            SideProp[q.is], to_border(F.s[q.is]), T),
       SideProp[q.ie], to_border(F.s[q.ie]), T)

\* Four valid sides emitted as border when all are equal, else as their four
\* side shorthands.
AllValidOnlyEqual(F, q, is_logical, T) ==
  IF F.s[q.bs] = F.s[q.be] /\ F.s[q.bs] = F.s[q.is] /\ F.s[q.bs] = F.s[q.ie]
  THEN Prop(F, "Border", to_border(F.s[q.bs]), T)
  ELSE FourSideShorthands(F, q, is_logical, T)

\* The branch of flush_category! for four valid sides.
AllValid(F, q, is_logical, T) ==
  LET bs == F.s[q.bs]
      be == F.s[q.be]
      is == F.s[q.is]
      ie == F.s[q.ie]
      top_eq_bottom == bs = be
      left_eq_right == is = ie
      top_eq_left == bs = is
      top_eq_right == bs = ie
      bottom_eq_left == be = is
      bottom_eq_right == be = ie
  IN IF top_eq_bottom /\ top_eq_left /\ top_eq_right
     THEN Prop(F, "Border", to_border(bs), T)
     ELSE IF top_eq_bottom /\ top_eq_left
     THEN SideDiff(Prop(F, "Border", to_border(bs), T), q.bs, q.ie, T)
     ELSE IF top_eq_bottom /\ top_eq_right
     THEN SideDiff(Prop(F, "Border", to_border(bs), T), q.bs, q.is, T)
     ELSE IF left_eq_right /\ bottom_eq_left
     THEN SideDiff(Prop(F, "Border", to_border(is), T), q.is, q.bs, T)
     ELSE IF left_eq_right /\ top_eq_left
     THEN SideDiff(Prop(F, "Border", to_border(is), T), q.is, q.be, T)
     ELSE IF top_eq_bottom
     THEN PropDiff(F, q, is_logical, q.bs,
                   LAMBDA G : TopEqBottomFallback(G, q, is_logical, T), TRUE, T)
     ELSE IF left_eq_right
     THEN PropDiff(F, q, is_logical, q.is,
                   LAMBDA G : SideDiff(SideDiff(G, q.is, q.bs, T), q.is, q.be, T), TRUE, T)
     ELSE IF bottom_eq_right
     THEN PropDiff(F, q, is_logical, q.be,
                   LAMBDA G : SideDiff(SideDiff(G, q.be, q.bs, T), q.be, q.is, T), TRUE, T)
     ELSE PropDiff(F, q, is_logical, q.bs,
                   LAMBDA G :
                     Prop(Prop(Prop(Prop(G, SideProp[q.bs], to_border(G.s[q.bs]), T),
                                    SideProp[q.be], to_border(G.s[q.be]), T),
                               SideProp[q.is], to_border(G.s[q.is]), T),
                          SideProp[q.ie], to_border(G.s[q.ie]), T),
                   FALSE, T)

\* side! calling to_border without the test of is_valid.
SideUnchecked(F, name, T) == Prop(F, SideProp[name], to_border(F.s[name]), T)

\* side!: the shorthand of a valid side, else its fields one by one.
Side(F, name, T) ==
  LET val == F.s[name]
  IN IF is_valid(val) THEN Prop(F, SideProp[name], to_border(val), T)
     ELSE LET F1 == IF val.style # Absent
                    THEN Prop(F, LonghandId(name, "style"), <<val.style>>, T) ELSE F
              F2 == IF val.width # Absent
                    THEN Prop(F1, LonghandId(name, "width"), <<val.width>>, T) ELSE F1
          IN IF val.color # Absent
             THEN Prop(F2, LonghandId(name, "color"), <<val.color>>, T) ELSE F2

\* inline_prop!
InlineProp(F, key, left, right, q, T) ==
  LET is == F.s[q.is][key]
      ie == F.s[q.ie][key]
  IN IF is # Absent /\ is = ie
     THEN Prop(Take(Prop(Take(F, q.is, key), left, <<is>>, T), q.ie, key), right, <<ie>>, T)
     ELSE F

\* The block axis of the branch for sides that are not all valid.
PartialBlock(F, q, is_logical, T) ==
  LET bs == F.s[q.bs]
      be == F.s[q.be]
  IN IF is_logical /\ bs = be /\ is_valid(bs)
     THEN IF T.logical
          THEN IF T.logical_shorthand
               THEN Prop(F, "BorderBlock", to_border(bs), T)
               ELSE Prop(Prop(F, "BorderBlockStart", to_border(bs), T),
                         "BorderBlockEnd", to_border(bs), T)
          ELSE Prop(Prop(F, "BorderTop", to_border(bs), T), "BorderBottom", to_border(bs), T)
     ELSE LET F1 ==
                IF is_logical /\ T.logical_shorthand /\ ~is_valid(bs) /\ ~is_valid(be)
                THEN LogicalShorthand(
                       LogicalShorthand(
                         LogicalShorthand(F, "BorderBlockStyle", "style", q.bs, q.be, T),
                         "BorderBlockWidth", "width", q.bs, q.be, T),
                       "BorderBlockColor", "color", q.bs, q.be, T)
                ELSE F
          IN Side(Side(F1, q.bs, T), q.be, T)

\* The inline axis of the branch for sides that are not all valid.
PartialInline(F, q, is_logical, T) ==
  LET is == F.s[q.is]
      ie == F.s[q.ie]
  IN IF is_logical /\ is = ie /\ is_valid(is)
     THEN IF T.logical
          THEN IF T.logical_shorthand
               THEN Prop(F, "BorderInline", to_border(is), T)
               ELSE Prop(Prop(F, "BorderInlineStart", to_border(is), T),
                         "BorderInlineEnd", to_border(is), T)
          ELSE Prop(Prop(F, "BorderLeft", to_border(is), T), "BorderRight", to_border(is), T)
     ELSE LET F1 ==
                IF is_logical /\ ~is_valid(is) /\ ~is_valid(ie)
                THEN IF T.logical_shorthand
                     THEN LogicalShorthand(
                            LogicalShorthand(
                              LogicalShorthand(F, "BorderInlineStyle", "style", q.is, q.ie, T),
                              "BorderInlineWidth", "width", q.is, q.ie, T),
                            "BorderInlineColor", "color", q.is, q.ie, T)
                     ELSE InlineProp(
                            InlineProp(
                              InlineProp(F, "style", "BorderLeftStyle", "BorderRightStyle", q, T),
                              "width", "BorderLeftWidth", "BorderRightWidth", q, T),
                            "color", "BorderLeftColor", "BorderRightColor", q, T)
                ELSE F
          IN Side(Side(F1, q.is, T), q.ie, T)

\* The branch of flush_category! for sides that are not all valid.
Partial(F, q, is_logical, T) ==
  LET F1 == Shorthand(F, "BorderStyle", "style", q, is_logical, T)
      F2 == Shorthand(F1, "BorderWidth", "width", q, is_logical, T)
      F3 == Shorthand(F2, "BorderColor", "color", q, is_logical, T)
  IN PartialInline(PartialBlock(F3, q, is_logical, T), q, is_logical, T)

FlushCategory(F, q, is_logical, T) ==
  IF is_valid(F.s[q.bs]) /\ is_valid(F.s[q.be]) /\ is_valid(F.s[q.is]) /\ is_valid(F.s[q.ie])
  THEN AllValid(F, q, is_logical, T)
  ELSE Partial(F, q, is_logical, T)

(***************************************************************************)
(* The handler.  A handler record st holds the fields of BorderHandler     *)
(* (s, category, has_any, the two embedded handlers), the caller's dest    *)
(* (out) and context (rules), and what the call in progress has done       *)
(* (props and calls: the invocations of prop! pending and expanded;        *)
(* flushes, ret, panic).                                                   *)
(***************************************************************************)
AllEmpty == [n \in SideNames |-> EmptySide]

\* PropertyCategory::default().
DefaultCategories == {"Physical", "Uninit"}

\* BorderHandler::new
NewHandler(category) ==
  [ s |-> AllEmpty, category |-> category, has_any |-> FALSE,
    border_image_handler |-> <<>>, border_radius_handler |-> <<>>,
    out |-> <<>>, rules |-> <<>>, calls |-> <<>>, props |-> <<>>,
    flushes |-> 0, ret |-> FALSE, panic |-> FALSE ]

\* The resets that end flush.
ResetSides(F) == IF F.panic THEN F ELSE [F EXCEPT !.s = AllEmpty]

\* BorderHandler::flush
Flush(st, T) ==
  IF st.panic \/ ~st.has_any THEN st
  ELSE ResetSides(ExpandProps(
         FlushCategory(
           FlushCategory([st EXCEPT !.has_any = FALSE, !.flushes = @ + 1],
                         PhysicalQuartet, FALSE, T),
           LogicalQuartet, TRUE, T), T))

\* The match arms of flush_unparsed for the inline sides.
UnparsedInlineLowering ==
  [ BorderInlineStart |-> <<"BorderLeft", "BorderRight">>,
    BorderInlineStartWidth |-> <<"BorderLeftWidth", "BorderRightWidth">>,
    BorderInlineStartColor |-> <<"BorderLeftColor", "BorderRightColor">>,
    BorderInlineStartStyle |-> <<"BorderLeftStyle", "BorderRightStyle">>,
    BorderInlineEnd |-> <<"BorderRight", "BorderLeft">>,
    BorderInlineEndWidth |-> <<"BorderRightWidth", "BorderLeftWidth">>,
    BorderInlineEndColor |-> <<"BorderRightColor", "BorderLeftColor">>,
    BorderInlineEndStyle |-> <<"BorderRightStyle", "BorderLeftStyle">> ]

\* The match arms of flush_unparsed for the block sides.
UnparsedBlockLowering ==
  [ BorderBlockStart |-> "BorderTop",
    BorderBlockStartWidth |-> "BorderTopWidth",
    BorderBlockStartColor |-> "BorderTopColor",
    BorderBlockStartStyle |-> "BorderTopStyle",
    BorderBlockEnd |-> "BorderBottom",
    BorderBlockEndWidth |-> "BorderBottomWidth",
    BorderBlockEndColor |-> "BorderBottomColor",
    BorderBlockEndStyle |-> "BorderBottomStyle" ]

\* An unparsed declaration: val is <<property id, tokens>>.
Unparsed(property_id, tokens) == Decl("Unparsed", <<property_id, tokens>>)

\* UnparsedProperty::with_property_id
with_property_id(unparsed, property_id) == Unparsed(property_id, unparsed.val[2])

\* flush_unparsed pushing the declaration at the front of dest.
flush_unparsed_first(st, unparsed, T) ==
  IF st.panic THEN st ELSE [st EXCEPT !.out = <<unparsed>> \o @]

\* BorderHandler::flush_unparsed
flush_unparsed(st, unparsed, T) ==
  LET property_id == unparsed.val[1]
  IN IF st.panic THEN st
     ELSE IF T.logical THEN [st EXCEPT !.out = Append(@, unparsed)]
     ELSE IF property_id \in DOMAIN UnparsedInlineLowering
     THEN [st EXCEPT !.rules =
             Append(@, Rule(with_property_id(unparsed, UnparsedInlineLowering[property_id][1]),
                            with_property_id(unparsed, UnparsedInlineLowering[property_id][2])))]
     ELSE IF property_id \in DOMAIN UnparsedBlockLowering
     THEN [st EXCEPT !.out =
             Append(@, with_property_id(unparsed, UnparsedBlockLowering[property_id]))]
     ELSE [st EXCEPT !.out = Append(@, unparsed)]

(***************************************************************************)
(* The embedded border-image and border-radius handlers: each keeps the    *)
(* declarations it has accepted until it is finalized or reset.            *)
(***************************************************************************)
BorderImageIds == {"BorderImage"}

BorderRadiusIds == {"BorderRadius"}

\* BorderImageHandler::will_flush
ImageWillFlush(property) ==
  property.id = "Unparsed" /\ property.val[1] \in BorderImageIds

\* BorderImageHandler::handle_property
ImageHandle(st, property) ==
  IF property.id \in BorderImageIds
  THEN [st EXCEPT !.border_image_handler = <<property>>, !.ret = TRUE]
  ELSE IF ImageWillFlush(property)
  THEN [st EXCEPT !.out = @ \o st.border_image_handler \o <<property>>,
                  !.border_image_handler = <<>>, !.ret = TRUE]
  ELSE [st EXCEPT !.ret = FALSE]

\* BorderImageHandler::finalize
ImageFinalize(st) ==
  [st EXCEPT !.out = @ \o st.border_image_handler, !.border_image_handler = <<>>]

\* BorderImageHandler::reset
ImageReset(st) == [st EXCEPT !.border_image_handler = <<>>]

\* BorderRadiusHandler::handle_property
RadiusHandle(st, property) ==
  IF property.id \in BorderRadiusIds
  THEN [st EXCEPT !.border_radius_handler = <<property>>, !.ret = TRUE]
  ELSE [st EXCEPT !.ret = FALSE]

\* BorderRadiusHandler::finalize
RadiusFinalize(st) ==
  [st EXCEPT !.out = @ \o st.border_radius_handler, !.border_radius_handler = <<>>]

\* A change of category that flushes nothing.
KeepIfChanged(st, category, T) == st

(***************************************************************************)
(* BorderHandler::handle_property                                          *)
(***************************************************************************)
\* The flush that opens property! and set_border!.
FlushIfChanged(st, category, T) ==
  IF category # st.category THEN Flush(st, T) ELSE st

\* The assignments of property! without that of has_any.
StorePropertyUnmarked(st, key, prop, val, category) ==
  IF st.panic THEN st
  ELSE [st EXCEPT !.s[key][prop] = val, !.category = category]

\* The assignments of property!.
StoreProperty(st, key, prop, val, category) ==
  IF st.panic THEN st
  ELSE [st EXCEPT !.s[key][prop] = val, !.category = category, !.has_any = TRUE]

\* property!
SetProperty(st, key, prop, val, category, T) ==
  StoreProperty(FlushIfChanged(st, category, T), key, prop, val, category)

\* The assignments of set_border! without that of has_any.
StoreBorderUnmarked(st, key, val, category) ==
  IF st.panic THEN st
  ELSE [st EXCEPT !.s[key] = set_border(val), !.category = category]

\* The assignments of set_border!.
StoreBorder(st, key, val, category) ==
  IF st.panic THEN st
  ELSE [st EXCEPT !.s[key] = set_border(val), !.category = category, !.has_any = TRUE]

\* set_border! without the flush on a change of category.
SetBorderUnflushed(st, key, val, category, T) ==
  StoreBorder(st, key, val, category)

\* set_border!
SetBorder(st, key, val, category, T) ==
  StoreBorder(FlushIfChanged(st, category, T), key, val, category)

\* The side and the field a longhand property writes.
LonghandKey(id) == CHOOSE k \in SideNames \X Fields : LonghandId(k[1], k[2]) = id

\* The side a side shorthand writes.
ShorthandKey(id) == CHOOSE k \in SideNames : SideProp[k] = id

\* The two sides an axis shorthand writes.
AxisSides(id) ==
  IF id \in {"BorderBlock", "BorderBlockColor", "BorderBlockWidth", "BorderBlockStyle"}
  THEN <<"border_block_start", "border_block_end">>
  ELSE <<"border_inline_start", "border_inline_end">>

\* The field an axis longhand or a four-side shorthand writes.
FieldOf(id) ==
  CASE id \in {"BorderBlockColor", "BorderInlineColor", "BorderColor"} -> "color"
    [] id \in {"BorderBlockWidth", "BorderInlineWidth", "BorderWidth"} -> "width"
    [] id \in {"BorderBlockStyle", "BorderInlineStyle", "BorderStyle"} -> "style"

\* The arms BorderWidth, BorderStyle and BorderColor without has_any = true.
HandleRectUnmarked(st, property) ==
  LET key == FieldOf(property.id)
      val == property.val
  IN [st EXCEPT !.s["border_top"][key] = val[1],
                !.s["border_right"][key] = val[2],
                !.s["border_bottom"][key] = val[3],
                !.s["border_left"][key] = val[4],
                !.s["border_block_start"][key] = Absent,
                !.s["border_block_end"][key] = Absent,
                !.s["border_inline_start"][key] = Absent,
                !.s["border_inline_end"][key] = Absent]

\* The arms BorderWidth, BorderStyle and BorderColor without the clearing
\* of the logical sides.
HandleRectKeepingLogical(st, property) ==
  LET key == FieldOf(property.id)
      val == property.val
  IN [st EXCEPT !.s["border_top"][key] = val[1],
                !.s["border_right"][key] = val[2],
                !.s["border_bottom"][key] = val[3],
                !.s["border_left"][key] = val[4],
                !.has_any = TRUE]

\* The arms BorderWidth, BorderStyle and BorderColor.
HandleRect(st, property) ==
  LET key == FieldOf(property.id)
      val == property.val
  IN [st EXCEPT !.s["border_top"][key] = val[1],
                !.s["border_right"][key] = val[2],
                !.s["border_bottom"][key] = val[3],
                !.s["border_left"][key] = val[4],
                !.s["border_block_start"][key] = Absent,
                !.s["border_block_end"][key] = Absent,
                !.s["border_inline_start"][key] = Absent,
                !.s["border_inline_end"][key] = Absent,
                !.has_any = TRUE]

\* The arm Border without the reset of the border-image handler.
HandleBorderKeepingImage(st, property) ==
  [st EXCEPT !.s = [n \in SideNames |->
                      IF n \in PhysicalSides
                      THEN set_border(property.val) ELSE EmptySide],
             !.has_any = TRUE]

\* The arm Border.
HandleBorder(st, property) ==
  LET st1 == [st EXCEPT !.s = [n \in SideNames |->
                                 IF n \in PhysicalSides
                                 THEN set_border(property.val) ELSE EmptySide]]
  IN [ImageReset(st1) EXCEPT !.has_any = TRUE]

\* The last arm: the embedded handlers.
Embedded(st, property) ==
  LET st2 == ImageHandle(st, property)
  IN IF st.panic THEN st
     ELSE IF st2.ret THEN st2 ELSE RadiusHandle(st2, property)

HandleOther(st, property, T) ==
  Embedded(IF ImageWillFlush(property) THEN Flush(st, T) ELSE st, property)

HandleProperty(st0, property, T) ==
  LET st == [st0 EXCEPT !.calls = <<>>, !.flushes = 0, !.ret = TRUE]
      id == property.id
      val == property.val
  IN CASE id \in LonghandIds ->
            LET k == LonghandKey(id)
            IN SetProperty(st, k[1], k[2], val[1], SideCategory(k[1]), T)
       [] id \in AxisLonghandIds ->
            LET a == AxisSides(id)
                key == FieldOf(id)
            IN SetProperty(SetProperty(st, a[1], key, val[1], "Logical", T),
                           a[2], key, val[2], "Logical", T)
       [] id \in SideShorthandIds ->
            LET k == ShorthandKey(id)
            IN SetBorder(st, k, val, SideCategory(k), T)
       [] id \in AxisShorthandIds ->
            LET a == AxisSides(id)
            IN SetBorder(SetBorder(st, a[1], val, "Logical", T), a[2], val, "Logical", T)
       [] id \in RectIds -> HandleRect(st, property)
       [] id = "Border" -> HandleBorder(st, property)
       [] id = "Unparsed" /\ is_border_property(val[1]) ->
            flush_unparsed(Flush(st, T), property, T)
       [] OTHER -> HandleOther(st, property, T)

\* The embedded handlers' finalize, after the flush.
FinalizeEmbedded(st) ==
  IF st.panic THEN st ELSE RadiusFinalize(ImageFinalize(st))

\* BorderHandler::finalize
Finalize(st0, T) ==
  FinalizeEmbedded(Flush([st0 EXCEPT !.calls = <<>>, !.flushes = 0], T))

\* A fresh handler fed the declarations D in order, then finalized.
RECURSIVE Feed(_, _, _)
Feed(st, D, T) ==
  IF D = <<>> THEN st ELSE Feed(HandleProperty(st, Head(D), T), Tail(D), T)

RunBlock(D, category, T) == Finalize(Feed(NewHandler(category), D, T), T)

(***************************************************************************)
(* The declarations a block is built from.                                 *)
(***************************************************************************)
Widths == {"1px", "2px"}

Styles == {"solid", "dashed"}

Colors == {"red", "lab(x)", "oklab(x)"}

FieldValues == [width |-> Widths, style |-> Styles, color |-> Colors]

\* Border triples: a base triple and the triples that differ from it in
\* one field or in two.
BaseTriple == <<"1px", "solid", "red">>

Triples ==
  { BaseTriple, <<"2px", "solid", "red">>, <<"1px", "dashed", "red">>,
    <<"1px", "solid", "lab(x)">> }

SideTriples == Triples \cup {<<"2px", "dashed", "red">>}

\* Values of the two-sided shorthands of one field.
PairValues ==
  [ width |-> {<<"1px", "1px">>, <<"1px", "2px">>},
    style |-> {<<"solid", "solid">>, <<"solid", "dashed">>},
    color |-> {<<"red", "red">>, <<"red", "lab(x)">>, <<"lab(x)", "currentColor">>} ]

\* Values of the four-sided shorthands of one field: top, right, bottom, left.
RectValues ==
  [ width |-> {<<"1px", "1px", "1px", "1px">>, <<"1px", "2px", "1px", "2px">>},
    style |-> {<<"solid", "solid", "solid", "solid">>, <<"solid", "dashed", "solid", "dashed">>},
    color |-> { <<"red", "red", "red", "red">>, <<"red", "lab(x)", "red", "lab(x)">>,
                <<"lab(x)", "currentColor", "lab(x)", "currentColor">> } ]

\* Declarations outside the border family, parsed and unparsed.
OtherProperties ==
  { Decl("BorderImage", <<"url(x) 10">>), Decl("BorderRadius", <<"4px">>),
    Decl("Color", <<"red">>),
    Unparsed("BorderImage", "var(--x)"), Unparsed("Color", "var(--x)") }

\* The targets a block is compiled for: none, or browsers without lab()
\* colours and with display-p3 in some of them, for each answer about the
\* logical border properties.
NoTargets ==
  [ has |-> FALSE, logical |-> TRUE, logical_shorthand |-> TRUE,
    oklab |-> TRUE, lab |-> "full", p3 |-> "full", color_function |-> TRUE ]

Legacy(logical, logical_shorthand) ==
  [ has |-> TRUE, logical |-> logical, logical_shorthand |-> logical_shorthand,
    oklab |-> FALSE, lab |-> "none", p3 |-> "partial", color_function |-> FALSE ]

\* Browsers that all have display-p3 and none has lab().
WideGamut ==
  [ has |-> TRUE, logical |-> TRUE, logical_shorthand |-> TRUE,
    oklab |-> FALSE, lab |-> "none", p3 |-> "full", color_function |-> FALSE ]

HandlerTargets ==
  {NoTargets, WideGamut} \cup {Legacy(l, sh) : l \in BOOLEAN, sh \in BOOLEAN}

(***************************************************************************)
(* The state machine: one declaration block handled by one handler.        *)
(*   targets, scope, default_category   fixed at construction              *)
(*   s .. border_radius_handler   the fields of BorderHandler              *)
(*   out, rules          dest and the rules given to the context           *)
(*   calls, flushes, ret what the last call did                            *)
(*   input               the declarations handled so far                   *)
(*   pc                  "open", "done" (finalized) or "panicked"          *)
(*   call, returned      a call of one of the functions of color.rs that   *)
(*                       the handler does not reach, and what it returned  *)
(***************************************************************************)
VARIABLES targets, scope, default_category, s, category, has_any,
          border_image_handler, border_radius_handler, out, rules, calls,
          flushes, ret, input, pc, call, returned

vars == << targets, scope, default_category, s, category, has_any,
           border_image_handler, border_radius_handler, out, rules, calls,
           flushes, ret, input, pc, call, returned >>

\* No call in flight, and a call that has not returned yet.
NoCall == [fn |-> "none"]
Pending == [fn |-> "pending"]

\* The number of declarations of a block: of any kind, and of side
\* shorthands only.
MaxDecls == 2
MaxSideDecls == 3

\* The sides in the order a block of the four physical side shorthands
\* names them.
SideOrder == <<"border_top", "border_right", "border_bottom", "border_left">>

Scopes == {"any", "physical", "logical", "sides"}

Handler ==
  [ s |-> s, category |-> category, has_any |-> has_any,
    border_image_handler |-> border_image_handler,
    border_radius_handler |-> border_radius_handler,
    out |-> out, rules |-> rules, calls |-> calls, props |-> <<>>,
    flushes |-> flushes, ret |-> ret, panic |-> pc = "panicked" ]

Becomes(st, next_pc) ==
  /\ s' = st.s
  /\ category' = st.category
  /\ has_any' = st.has_any
  /\ border_image_handler' = st.border_image_handler
  /\ border_radius_handler' = st.border_radius_handler
  /\ out' = st.out
  /\ rules' = st.rules
  /\ calls' = st.calls
  /\ flushes' = st.flushes
  /\ ret' = st.ret
  /\ pc' = IF st.panic THEN "panicked" ELSE next_pc

\* The targets and the initial category each scope is explored with.
ScopeTargets(sc) ==
  CASE sc = "any" -> HandlerTargets
    [] sc = "physical" -> {NoTargets, Legacy(TRUE, TRUE)}
    [] sc = "logical" -> {Legacy(TRUE, TRUE), Legacy(TRUE, FALSE), Legacy(FALSE, FALSE)}
    [] sc = "sides" -> {NoTargets, WideGamut}

ScopeCategories(sc) == IF sc = "physical" THEN DefaultCategories ELSE {"Physical"}

Init ==
  /\ scope \in Scopes
  /\ targets \in ScopeTargets(scope)
  /\ default_category \in ScopeCategories(scope)
  /\ \E st \in {NewHandler(default_category)} :
          /\ s = st.s
          /\ category = st.category
          /\ has_any = st.has_any
          /\ border_image_handler = st.border_image_handler
          /\ border_radius_handler = st.border_radius_handler
          /\ out = st.out
          /\ rules = st.rules
          /\ calls = st.calls
          /\ flushes = st.flushes
          /\ ret = st.ret
  /\ input = <<>>
  /\ pc = "open"
  /\ call = NoCall
  /\ returned = NoCall

\* The number of declarations a block of the scope may hold.
ScopeDecls ==
  CASE scope = "any" -> MaxDecls
    [] scope = "sides" -> Len(SideOrder)
    [] OTHER -> MaxSideDecls

\* The caller hands one declaration to handle_property.
Handle(property) ==
  /\ pc = "open"
  /\ Len(input) < ScopeDecls
  /\ \E st \in {HandleProperty(Handler, property, targets)} : Becomes(st, "open")
  /\ input' = Append(input, property)
  /\ UNCHANGED <<targets, scope, default_category, call, returned>>

ScopeSides ==
  CASE scope = "physical" -> PhysicalSides
    [] scope = "logical" -> LogicalSides
    [] scope = "sides" -> {SideOrder[k] : k \in {Len(input) + 1} \cap DOMAIN SideOrder}
    [] OTHER -> SideNames

Longhand ==
  /\ scope = "any"
  /\ \E side \in SideNames, field \in Fields :
       \E v \in FieldValues[field] : Handle(Decl(LonghandId(side, field), <<v>>))

AxisLonghand ==
  /\ scope = "any"
  /\ \E id \in AxisLonghandIds :
       \E v \in PairValues[FieldOf(id)] : Handle(Decl(id, v))

SideShorthand ==
  \E side \in ScopeSides :
    \E v \in (IF scope = "any" THEN Triples ELSE SideTriples) :
      Handle(Decl(SideProp[side], v))

AxisShorthand ==
  /\ scope \in {"any", "logical"}
  /\ \E id \in AxisShorthandIds, v \in Triples : Handle(Decl(id, v))

FourSides ==
  /\ scope = "any"
  /\ \E id \in RectIds :
       \E v \in RectValues[FieldOf(id)] : Handle(Decl(id, v))

BorderAll ==
  /\ scope \in {"any", "physical"}
  /\ \E v \in Triples : Handle(Decl("Border", v))

UnparsedBorder ==
  /\ scope = "any"
  /\ \E id \in BorderPropertyIds : Handle(Unparsed(id, "var(--x)"))

Other ==
  /\ scope = "any"
  /\ \E property \in OtherProperties : Handle(property)

\* The caller finalizes the block.
DoFinalize ==
  /\ pc = "open"
  /\ \E st \in {Finalize(Handler, targets)} : Becomes(st, "done")
  /\ UNCHANGED <<targets, scope, default_category, input, call, returned>>

Next ==
  \/ Longhand
  \/ AxisLonghand
  \/ SideShorthand
  \/ AxisShorthand
  \/ FourSides
  \/ BorderAll
  \/ UnparsedBorder
  \/ Other
  \/ DoFinalize

Spec == Init /\ [][Next]_vars

(***************************************************************************)
(* Floats.  An f32 is a record: nan says it is NaN, v is its value         *)
(* otherwise (whole degrees for hues).  Comparisons with NaN are false and *)
(* arithmetic on NaN gives NaN.                                            *)
(***************************************************************************)
Float(v) == [nan |-> FALSE, v |-> v]

NaN == [nan |-> TRUE, v |-> 0]

Add(x, y) == IF x.nan \/ y.nan THEN NaN ELSE Float(x.v + y.v)

Sub(x, y) == IF x.nan \/ y.nan THEN NaN ELSE Float(x.v - y.v)

Lt(x, y) == ~x.nan /\ ~y.nan /\ x.v < y.v

\* x % 360.0: the remainder has the sign of x.
Rem360(x) ==
  IF x.nan THEN NaN
  ELSE Float(IF x.v >= 0 THEN x.v % 360 ELSE 0 - ((0 - x.v) % 360))

\* ((x % 360.0) + 360.0) % 360.0
Normalize(x) == Rem360(Add(Rem360(x), Float(360)))

(***************************************************************************)
(* HueInterpolationMethod::interpolate on the hues a and b: the pair of    *)
(* hues it leaves.                                                         *)
(***************************************************************************)
HueInterpolationMethod == {"Shorter", "Longer", "Increasing", "Decreasing", "Specified"}

\* The match on the method, with the arms of Shorter and Longer exchanged.
FixupExchanged(method, a, b) ==
  CASE method = "Longer" ->
         IF Lt(Float(180), Sub(b, a)) THEN <<Add(a, Float(360)), b>>
         ELSE IF Lt(Sub(b, a), Float(0 - 180)) THEN <<a, Add(b, Float(360))>>
         ELSE <<a, b>>
    [] method = "Shorter" ->
         IF Lt(Float(0), Sub(b, a)) /\ Lt(Sub(b, a), Float(180))
         THEN <<Add(a, Float(360)), b>>
         ELSE IF Lt(Float(0 - 180), Sub(b, a)) /\ Lt(Sub(b, a), Float(0))
         THEN <<a, Add(b, Float(360))>>
         ELSE <<a, b>>
    [] method = "Increasing" ->
         IF Lt(b, a) THEN <<a, Add(b, Float(360))>> ELSE <<a, b>>
    [] method = "Decreasing" ->
         IF Lt(a, b) THEN <<Add(a, Float(360)), b>> ELSE <<a, b>>
    [] OTHER -> <<a, b>>

\* The match on the method.
Fixup(method, a, b) ==
  CASE method = "Shorter" ->
         IF Lt(Float(180), Sub(b, a)) THEN <<Add(a, Float(360)), b>>
         ELSE IF Lt(Sub(b, a), Float(0 - 180)) THEN <<a, Add(b, Float(360))>>
         ELSE <<a, b>>
    [] method = "Longer" ->
         IF Lt(Float(0), Sub(b, a)) /\ Lt(Sub(b, a), Float(180))
         THEN <<Add(a, Float(360)), b>>
         ELSE IF Lt(Float(0 - 180), Sub(b, a)) /\ Lt(Sub(b, a), Float(0))
         THEN <<a, Add(b, Float(360))>>
         ELSE <<a, b>>
    [] method = "Increasing" ->
         IF Lt(b, a) THEN <<a, Add(b, Float(360))>> ELSE <<a, b>>
    [] method = "Decreasing" ->
         IF Lt(a, b) THEN <<Add(a, Float(360)), b>> ELSE <<a, b>>
    [] OTHER -> <<a, b>>

Interpolate(method, a, b) ==
  IF method # "Specified"
  THEN Fixup(method, Normalize(a), Normalize(b))
  ELSE Fixup(method, a, b)

(***************************************************************************)
(* parse_rgb_components.  A component token is a number, a percentage (its *)
(* value in percent) or the ident none.  A parsed component is a float     *)
(* num/den, or NaN.                                                        *)
(***************************************************************************)
Clamp(v, lo, hi) == IF v < lo THEN lo ELSE IF v > hi THEN hi ELSE v

Ratio(num, den) == [nan |-> FALSE, num |-> num, den |-> den]

NoRatio == [nan |-> TRUE, num |-> 0, den |-> 1]

InvalidValue == [ok |-> FALSE, error |-> "InvalidValue"]

\* ComponentParser::parse_number_or_percentage
ParseNumberOrPercentage(parser, token) ==
  CASE token.kind = "number" -> [ok |-> TRUE, t |-> "Number", nan |-> FALSE, value |-> token.value]
    [] token.kind = "percentage" ->
         [ok |-> TRUE, t |-> "Percentage", nan |-> FALSE, value |-> token.value]
    [] token.kind = "none" /\ parser.allow_none ->
         [ok |-> TRUE, t |-> "Number", nan |-> TRUE, value |-> 0]
    [] OTHER -> InvalidValue

\* The match of parse_component with a none component forgetting the kind
\* seen before it.
MatchComponentForgetful(parsed, kind) ==
  IF ~parsed.ok THEN parsed
  ELSE IF parsed.t = "Number" /\ parsed.nan
  THEN [ok |-> TRUE, value |-> NoRatio, kind |-> "Unknown"]
  ELSE IF parsed.t = "Number" /\ kind # "Percentage"
  THEN [ok |-> TRUE, value |-> Ratio(Clamp(parsed.value, 0, 255), 255), kind |-> "Number"]
  ELSE IF parsed.t = "Percentage" /\ kind # "Number"
  THEN [ok |-> TRUE, value |-> Ratio(Clamp(parsed.value, 0, 100), 100), kind |-> "Percentage"]
  ELSE InvalidValue

\* The match of parse_component on what the parser returned.
MatchComponent(parsed, kind) ==
  IF ~parsed.ok THEN parsed
  ELSE IF parsed.t = "Number" /\ parsed.nan
  THEN [ok |-> TRUE, value |-> NoRatio, kind |-> kind]
  ELSE IF parsed.t = "Number" /\ kind # "Percentage"
  THEN [ok |-> TRUE, value |-> Ratio(Clamp(parsed.value, 0, 255), 255), kind |-> "Number"]
  ELSE IF parsed.t = "Percentage" /\ kind # "Number"
  THEN [ok |-> TRUE, value |-> Ratio(Clamp(parsed.value, 0, 100), 100), kind |-> "Percentage"]
  ELSE InvalidValue

\* parse_component
ParseComponent(token, parser, kind) ==
  MatchComponent(ParseNumberOrPercentage(parser, token), kind)

\* A component added to the ones parsed so far.
ThenValue(sofar, component) ==
  IF ~component.ok THEN component
  ELSE [ok |-> TRUE, values |-> Append(sofar.values, component.value),
        kind |-> component.kind]

\* The components parsed so far, then the next one (the ? operator returns
\* the first error).
ThenComponent(sofar, token, parser) ==
  IF ~sofar.ok THEN sofar
  ELSE ThenValue(sofar, ParseComponent(token, parser, sofar.kind))

\* parse_rgb_components: r, g and b from the three tokens.
ParseRgbComponents(tokens, parser) ==
  ThenComponent(
    ThenComponent(
      ThenComponent([ok |-> TRUE, values |-> <<>>, kind |-> "Unknown"], tokens[1], parser),
      tokens[2], parser),
    tokens[3], parser)

(***************************************************************************)
(* Calls of the functions of color.rs, one call per behaviour: the         *)
(* arguments are chosen at the start, the call returns in one step.        *)
(***************************************************************************)
\* Browsers for each answer of the compatibility data.
ColorTargets == {T \in AllTargets : T.has /\ T.logical /\ T.logical_shorthand}

\* The hues: whole multiples of 45 degrees over MaxTurns turns each way,
\* and NaN.
MaxTurns == 2

Hues == {Float(45 * k) : k \in (0 - 8 * MaxTurns)..(8 * MaxTurns)} \cup {NaN}

ComponentTokens ==
  [kind : {"number"}, value : {0 - 1, 128, 300}]
    \cup [kind : {"percentage"}, value : {0 - 10, 50, 150}]
    \cup {[kind |-> "none", value |-> 0]}

\* The parser parse_color_function gives parse_rgb.
ColorFunctionParser == [allow_none |-> TRUE]

\* define_colorspace!: a colour of a space with components a, b, c and
\* alpha, each an f32.
Components == {NaN, Float(0), Float(1)}

SpaceColors == [a : Components, b : Components, c : Components, alpha : Components]

\* resolve_missing leaving the alpha as it is.
ResolveMissingKeepingAlpha(color) ==
  [ a |-> IF color.a.nan THEN Float(0) ELSE color.a,
    b |-> IF color.b.nan THEN Float(0) ELSE color.b,
    c |-> IF color.c.nan THEN Float(0) ELSE color.c,
    alpha |-> color.alpha ]

\* resolve_missing
ResolveMissing(color) ==
  [ a |-> IF color.a.nan THEN Float(0) ELSE color.a,
    b |-> IF color.b.nan THEN Float(0) ELSE color.b,
    c |-> IF color.c.nan THEN Float(0) ELSE color.c,
    alpha |-> IF color.alpha.nan THEN Float(0) ELSE color.alpha ]

\* A u32 is its eight hexadecimal digits, the most significant first; the
\* masks and shifts of compact_hex and expand_hex are whole digits.
HexWidth == 8

Bit(x, k) == (x \div (2 ^ k)) % 2

DigitAnd(x, y) ==
  Bit(x, 0) * Bit(y, 0) + 2 * Bit(x, 1) * Bit(y, 1)
    + 4 * Bit(x, 2) * Bit(y, 2) + 8 * Bit(x, 3) * Bit(y, 3)

DigitOr(x, y) == x + y - DigitAnd(x, y)

\* v & m
BitAnd(v, m) == [i \in 1..HexWidth |-> DigitAnd(v[i], m[i])]

\* v | w
BitOr(v, w) == [i \in 1..HexWidth |-> DigitOr(v[i], w[i])]

\* v << 4 * n in 32 bits: the digits shifted out are lost.
Shl(v, n) == [i \in 1..HexWidth |-> IF i + n <= HexWidth THEN v[i + n] ELSE 0]

\* v >> 4 * n
Shr(v, n) == [i \in 1..HexWidth |-> IF i - n >= 1 THEN v[i - n] ELSE 0]

\* compact_hex
compact_hex(v) ==
  BitOr(Shr(BitAnd(v, <<0, 15, 15, 0, 0, 0, 0, 0>>), 3),
        Shr(BitAnd(v, <<0, 0, 0, 0, 0, 15, 15, 0>>), 1))

\* expand_hex without its last term, v & 0x000F.
expand_hex_high(v) ==
  BitOr(BitOr(BitOr(Shl(BitAnd(v, <<0, 0, 0, 0, 15, 0, 0, 0>>), 4),
                    Shl(BitAnd(v, <<0, 0, 0, 0, 15, 15, 0, 0>>), 3)),
              Shl(BitAnd(v, <<0, 0, 0, 0, 0, 15, 15, 0>>), 2)),
        Shl(BitAnd(v, <<0, 0, 0, 0, 0, 0, 15, 15>>), 1))

\* expand_hex
expand_hex(v) ==
  BitOr(BitOr(BitOr(BitOr(Shl(BitAnd(v, <<0, 0, 0, 0, 15, 0, 0, 0>>), 4),
                          Shl(BitAnd(v, <<0, 0, 0, 0, 15, 15, 0, 0>>), 3)),
                    Shl(BitAnd(v, <<0, 0, 0, 0, 0, 15, 15, 0>>), 2)),
              Shl(BitAnd(v, <<0, 0, 0, 0, 0, 0, 15, 15>>), 1)),
        BitAnd(v, <<0, 0, 0, 0, 0, 0, 0, 15>>))

\* The test of to_css for the short form of a hex colour.
IsShortHex(hex) == hex = expand_hex(compact_hex(hex))

\* The hexadecimal digits the values are drawn from.
HexDigits == {0, 10, 15}

Calls ==
  [fn : {"get_fallbacks"}, color : AllColors, targets : ColorTargets]
    \cup [fn : {"interpolate"}, method : HueInterpolationMethod, a : Hues, b : Hues]
    \cup [fn : {"parse_rgb_components"}, tokens : [1..3 -> ComponentTokens],
          parser : {ColorFunctionParser}]
    \cup [fn : {"resolve_missing"}, color : SpaceColors]
    \cup [fn : {"compact_hex"}, v : [1..HexWidth -> HexDigits]]

\* No handler takes part in these behaviours.
CallInit ==
  /\ call \in Calls
  /\ returned = Pending
  /\ scope = "any"
  /\ targets = NoTargets
  /\ default_category = "Physical"
  /\ s = AllEmpty
  /\ category = "Physical"
  /\ has_any = FALSE
  /\ border_image_handler = <<>>
  /\ border_radius_handler = <<>>
  /\ out = <<>>
  /\ rules = <<>>
  /\ calls = <<>>
  /\ flushes = 0
  /\ ret = FALSE
  /\ input = <<>>
  /\ pc = "done"

Returns(value) ==
  /\ returned = Pending
  /\ returned' = value
  /\ UNCHANGED << targets, scope, default_category, s, category, has_any,
                  border_image_handler, border_radius_handler, out, rules, calls,
                  flushes, ret, input, pc, call >>

\* get_fallbacks, with the sets get_possible_fallbacks and
\* get_necessary_fallbacks give for the same colour and targets.
CallGetFallbacks ==
  /\ call.fn = "get_fallbacks"
  /\ Returns([ fn |-> "get_fallbacks",
               possible |-> GetPossibleFallbacks(call.color, call.targets),
               necessary |-> GetNecessaryFallbacks(call.color, call.targets),
               fallbacks |-> GetFallbacks(call.color, call.targets) ])

CallInterpolate ==
  /\ call.fn = "interpolate"
  /\ Returns([ fn |-> "interpolate",
               hues |-> Interpolate(call.method, call.a, call.b) ])

CallParseRgbComponents ==
  /\ call.fn = "parse_rgb_components"
  /\ Returns([ fn |-> "parse_rgb_components",
               result |-> ParseRgbComponents(call.tokens, call.parser) ])

CallResolveMissing ==
  /\ call.fn = "resolve_missing"
  /\ Returns([fn |-> "resolve_missing", color |-> ResolveMissing(call.color)])

\* compact_hex, expand_hex of its result, and the test to_css makes of both.
CallCompactHex ==
  /\ call.fn = "compact_hex"
  /\ Returns([ fn |-> "compact_hex",
               compact |-> compact_hex(call.v),
               expanded |-> expand_hex(compact_hex(call.v)),
               short |-> IsShortHex(call.v) ])

CallNext ==
  \/ CallGetFallbacks
  \/ CallInterpolate
  \/ CallParseRgbComponents
  \/ CallResolveMissing
  \/ CallCompactHex

CallSpec == CallInit /\ [][CallNext]_vars

(***************************************************************************)
(* Properties of the handler.                                              *)
(***************************************************************************)
LastInput == input[Len(input)]

\* The parsed declarations of the border family, by class.
ParsedBorderIds ==
  LonghandIds \cup AxisLonghandIds \cup SideShorthandIds \cup AxisShorthandIds
    \cup RectIds \cup {"Border"}

\* C4: a flush that returns, from whatever state handle_property or
\* finalize calls it in, leaves all eight sides with width, style and color
\* absent and has_any false; after finalize the handler is empty.
FlushResetsSides ==
  /\ pc = "open" =>
       LET F == Flush(Handler, targets)
       IN ~F.panic => (F.s = AllEmpty /\ ~F.has_any)
  /\ (pc = "open" /\ input # <<>> /\ LastInput.id = "Unparsed"
        /\ LastInput.val[1] \in ParsedBorderIds) => (s = AllEmpty /\ ~has_any)
  /\ pc = "done" => (s = AllEmpty /\ ~has_any)

\* A finalize that flushed pending sides.
FlushResetsSidesWitness ==
  pc = "done" /\ flushes = 1 /\ Len(out) > 0 /\ s = AllEmpty /\ ~has_any

\* C9: after handle_property returns from a border declaration the four
\* physical sides hold its triple, the four logical sides are empty and the
\* border-image handler holds nothing, so finalize pushes no border-image
\* declaration; border-image: url(x) 10; border: 1px solid red gives only
\* border: 1px solid red.
BorderResetsImage ==
  /\ (pc = "open" /\ input # <<>> /\ LastInput.id = "Border") =>
       /\ \A n \in PhysicalSides : s[n] = set_border(LastInput.val)
       /\ \A n \in LogicalSides : s[n] = EmptySide
       /\ border_image_handler = <<>>
       /\ LET F == Finalize(Handler, targets)
          IN \A i \in (Len(out) + 1)..Len(F.out) : F.out[i].id \notin BorderImageIds
  /\ (pc = "done" /\ input = <<Decl("BorderImage", <<"url(x) 10">>), Decl("Border", BaseTriple)>>)
       => out = <<Decl("Border", BaseTriple)>>

\* border after border-image, finalized.
BorderResetsImageWitness ==
  /\ pc = "done"
  /\ input = <<Decl("BorderImage", <<"url(x) 10">>), Decl("Border", BaseTriple)>>
  /\ out = <<Decl("Border", BaseTriple)>>

\* C10: whenever handle_property returns, it returns true for a parsed
\* declaration of the border family and for an unparsed declaration of a
\* border property, and for any other declaration true exactly when the
\* border-image handler or else the border-radius handler accepts it.
ReturnsOwnership ==
  (input # <<>> /\ pc # "panicked") =>
    LET p == LastInput
    IN IF p.id \in ParsedBorderIds
          \/ (p.id = "Unparsed" /\ p.val[1] \in ParsedBorderIds)
       THEN ret = TRUE
       ELSE ret = (p.id \in BorderImageIds \/ ImageWillFlush(p)
                     \/ p.id \in BorderRadiusIds)

\* A declaration no handler owns has been refused, and an unparsed border
\* declaration accepted.
ReturnsOwnershipWitness ==
  /\ Len(input) = 2 /\ pc = "open" /\ ret = FALSE
  /\ input[1].id = "Unparsed" /\ input[1].val[1] = "BorderBlockColor"
  /\ input[2].id = "Color"

\* The category of a parsed border declaration: logical for the properties
\* of the logical sides and axes, physical for the others.
CategoryOf(id) == IF id \in LogicalPropertyIds THEN "Logical" ELSE "Physical"

\* handle_property has just handled a declaration whose id is in ids, of a
\* category other than the handler's, with sides pending: the pending sides
\* were flushed to out before the declaration was recorded alone, and the
\* handler has the declaration's category.
FlushedBefore(ids) ==
  (pc = "open" /\ pc' = "open" /\ input' # input
     /\ input'[Len(input')].id \in ids
     /\ CategoryOf(input'[Len(input')].id) # category /\ has_any) =>
    LET p == input'[Len(input')]
        F == Flush(Handler, targets)
    IN /\ flushes' = 1
       /\ out' = F.out
       /\ rules' = F.rules
       /\ category' = CategoryOf(p.id)
       /\ s' = HandleProperty(NewHandler(CategoryOf(p.id)), p, targets).s

\* C2 as stated: every parsed border declaration of the other category,
\* the four-side shorthands and border among them, is preceded by a flush.
FlushOnCategoryChange == [][FlushedBefore(ParsedBorderIds)]_vars

\* C2: a per-side longhand, a per-side shorthand or a per-axis shorthand of
\* the other category is preceded by a flush of the pending sides; the
\* four-side shorthands and border are recorded without one.
FlushOnSideCategoryChange ==
  [][FlushedBefore(ParsedBorderIds \ (RectIds \cup {"Border"}))]_vars

\* A logical side shorthand has arrived after a physical one and flushed it.
FlushOnSideCategoryChangeWitness ==
  /\ pc = "open" /\ Len(input) = 2 /\ flushes = 1
  /\ input[1].id = "BorderTop" /\ input[2].id = "BorderInlineStart"
  /\ category = "Logical" /\ Len(out) > 0
  /\ s["border_top"] = EmptySide

\* The declaration of the property a call of prop! pushed under, with each
\* colour of val converted to kind.
Converted(id, val, kind) ==
  Decl(id, [i \in 1..Len(val) |->
              IF i \in ColorPositions(id) THEN GetFallback(val[i], kind) ELSE val[i]])

\* The sequences of fallback kinds a value may need.
FallbackKinds == {<<>>, <<RGB>>, <<P3>>, <<RGB, P3>>}

RECURSIVE Flatten(_)
Flatten(log) == IF log = <<>> THEN <<>> ELSE Head(log).pushed \o Flatten(Tail(log))

\* C3: what a call of prop! for a colour-carrying property pushes is, with
\* targets set, the RGB fallback, then the P3 fallback, then the value (in
\* lab when its fallbacks include lab), each of the fallbacks only when
\* needed; with no targets it is the value alone; and what the calls of one
\* flush push is contiguous in out.
FallbacksBeforeMain ==
  /\ \A i \in 1..Len(calls) :
       LET c == calls[i]
           n == Len(c.pushed)
       IN (n > 0 /\ c.pushed[1].id \in ColorCarrying) =>
            LET id == c.pushed[1].id
            IN IF targets.has
               THEN \E K \in FallbackKinds :
                      /\ n = Len(K) + 1
                      /\ \A k \in 1..Len(K) : c.pushed[k] = Converted(id, c.val, K[k])
                      /\ c.pushed[n] \in {Decl(id, c.val), Converted(id, c.val, LAB)}
               ELSE c.pushed = <<Decl(id, c.val)>>
  /\ \E k \in 0..(Len(out) - Len(Flatten(calls))) :
       SubSeq(out, k + 1, k + Len(Flatten(calls))) = Flatten(calls)

\* A value pushed after its RGB and P3 fallbacks.
FallbacksBeforeMainWitness ==
  /\ pc = "done" /\ targets.has
  /\ \E i \in 1..Len(calls) :
       /\ Len(calls[i].pushed) = 3
       /\ calls[i].pushed[1] = Converted(calls[i].id, calls[i].val, RGB)
       /\ calls[i].pushed[2] = Converted(calls[i].id, calls[i].val, P3)
       /\ calls[i].pushed[3].val = calls[i].val

\* The properties prop! emits an inline-start side and an inline-end side
\* under, with the same property of the left and of the right side.
InlineEmissions ==
  { <<SideProp[n], SideProp["border_left"], SideProp["border_right"]>> :
      n \in {"border_inline_start", "border_inline_end"} }
    \cup { <<LonghandId(n, f), LonghandId("border_left", f), LonghandId("border_right", f)>> :
             n \in {"border_inline_start", "border_inline_end"}, f \in Fields }

\* C7: without logical borders in the targets, a call of prop! for a
\* property of the inline-start side pushes nothing and registers the pair
\* (left property, right property) with the value, and one for a property of
\* the inline-end side the pair (right property, left property);
\* border-inline-start: 1px solid red registers (border-left: 1px solid
\* red, border-right: 1px solid red) and nothing reaches out.
InlineRegistered ==
  /\ ~targets.logical =>
       \A i \in 1..Len(calls) : \A e \in InlineEmissions :
         calls[i].id = e[1] =>
           LET start == e[1] \in {SideProp["border_inline_start"]}
                                   \cup {LonghandId("border_inline_start", f) : f \in Fields}
               ltr == IF start THEN e[2] ELSE e[3]
               rtl == IF start THEN e[3] ELSE e[2]
           IN /\ calls[i].pushed = <<>>
              /\ calls[i].rules = <<Rule(Decl(ltr, calls[i].val), Decl(rtl, calls[i].val))>>
  /\ (pc = "done" /\ ~targets.logical
        /\ input = <<Decl("BorderInlineStart", BaseTriple)>>) =>
       /\ rules = <<Rule(Decl("BorderLeft", BaseTriple), Decl("BorderRight", BaseTriple))>>
       /\ out = <<>>

\* border-inline-end-width alone, finalized without logical borders.
InlineRegisteredWitness ==
  /\ pc = "done" /\ ~targets.logical
  /\ input = <<Decl("BorderInlineEndWidth", <<"2px">>)>>
  /\ rules = <<Rule(Decl("BorderRightWidth", <<"2px">>), Decl("BorderLeftWidth", <<"2px">>))>>
  /\ out = <<>>

(***************************************************************************)
(* The cascade: what a sequence of declarations leaves on the four         *)
(* physical sides of a box whose logical sides lie on the physical sides   *)
(* as m says.                                                              *)
(***************************************************************************)
SideMappings ==
  {m \in [LogicalSides -> PhysicalSides] :
     \A a, b \in LogicalSides : a # b => m[a] # m[b]}

\* block-start on top, block-end at the bottom, the inline sides left and
\* right in either direction.
HorizontalMappings ==
  {m \in SideMappings :
     m["border_block_start"] = "border_top" /\ m["border_block_end"] = "border_bottom"}

PhysicalOf(n, m) == IF n \in PhysicalSides THEN n ELSE m[n]

Assign(box, d, m) ==
  CASE d.id \in LonghandIds ->
         LET k == LonghandKey(d.id)
         IN [box EXCEPT ![PhysicalOf(k[1], m)][k[2]] = d.val[1]]
    [] d.id \in AxisLonghandIds ->
         [box EXCEPT ![m[AxisSides(d.id)[1]]][FieldOf(d.id)] = d.val[1],
                     ![m[AxisSides(d.id)[2]]][FieldOf(d.id)] = d.val[2]]
    [] d.id \in SideShorthandIds ->
         [box EXCEPT ![PhysicalOf(ShorthandKey(d.id), m)] = set_border(d.val)]
    [] d.id \in AxisShorthandIds ->
         [box EXCEPT ![m[AxisSides(d.id)[1]]] = set_border(d.val),
                     ![m[AxisSides(d.id)[2]]] = set_border(d.val)]
    [] d.id \in RectIds ->
         [box EXCEPT !["border_top"][FieldOf(d.id)] = d.val[1],
                     !["border_right"][FieldOf(d.id)] = d.val[2],
                     !["border_bottom"][FieldOf(d.id)] = d.val[3],
                     !["border_left"][FieldOf(d.id)] = d.val[4]]
    [] d.id = "Border" -> [n \in PhysicalSides |-> set_border(d.val)]
    [] OTHER -> box

RECURSIVE Cascade(_, _, _)
Cascade(box, D, m) ==
  IF D = <<>> THEN box ELSE Cascade(Assign(box, Head(D), m), Tail(D), m)

\* The value b stands for the value a: the same value, or the colour a
\* written in lab.
SameValue(a, b) ==
  \/ a = b
  \/ a \in AllColors /\ a # "currentColor" /\ b = ToLab(a)

SameBox(A, B) ==
  \A n \in PhysicalSides, f \in Fields : SameValue(A[n][f], B[n][f])

\* The output of a finalized block of parsed border declarations gives each
\* side what the input gives it, for every mapping in M.
PreservesCascade(M) ==
  (pc = "done" /\ targets.logical
     /\ \A i \in 1..Len(input) : input[i].id \in ParsedBorderIds) =>
    \A m \in M :
      SameBox(Cascade([n \in PhysicalSides |-> EmptySide], input, m),
              Cascade([n \in PhysicalSides |-> EmptySide], out, m))

\* C1: with logical borders supported, the emitted declarations give every
\* side and sub-property the final value the input declarations give it,
\* and assign nothing the input does not, whichever way the logical sides
\* lie on the physical sides.
CascadePreserved == PreservesCascade(SideMappings)

\* The same for the mappings of horizontal writing.
CascadePreservedHorizontal == PreservesCascade(HorizontalMappings)

\* C5: the output of a finalized block of border declarations, fed to a
\* fresh handler with the same targets and finalized, comes out as the same
\* sequence.
FlushIdempotent ==
  (pc = "done" /\ \A i \in 1..Len(input) : input[i].id \in ParsedBorderIds) =>
    RunBlock(out, default_category, targets).out = out

\* The number of times d occurs in D.
Count(D, d) == Cardinality({i \in 1..Len(D) : D[i] = d})

\* The same up to the order of the declarations.
FlushIdempotentUpToOrder ==
  (pc = "done" /\ \A i \in 1..Len(input) : input[i].id \in ParsedBorderIds) =>
    LET again == RunBlock(out, default_category, targets).out
    IN /\ Len(again) = Len(out)
       /\ \A i \in 1..Len(out) : Count(again, out[i]) = Count(out, out[i])

\* C6: without logical borders in the targets no declaration of a logical
\* border property is pushed to out.
NoLogicalPushed ==
  ~targets.logical => \A i \in 1..Len(out) : out[i].id \notin LogicalPropertyIds

\* The same when the logical shorthands are unsupported too.
NoLogicalPushedWithoutShorthand ==
  (~targets.logical /\ ~targets.logical_shorthand) =>
    \A i \in 1..Len(out) : out[i].id \notin LogicalPropertyIds

\* The properties of the block sides and axis, and of the inline ones.
BlockPropertyIds ==
  {id \in LogicalPropertyIds :
     id \in {SideProp[n] : n \in {"border_block_start", "border_block_end"}}
       \cup {LonghandId(n, f) : n \in {"border_block_start", "border_block_end"}, f \in Fields}
       \cup {"BorderBlock", "BorderBlockColor", "BorderBlockWidth", "BorderBlockStyle"}}

InlinePropertyIds == LogicalPropertyIds \ BlockPropertyIds

TopBottomIds ==
  {SideProp[n] : n \in {"border_top", "border_bottom"}}
    \cup {LonghandId(n, f) : n \in {"border_top", "border_bottom"}, f \in Fields}

\* C8: an unparsed border declaration is pushed unchanged when logical
\* borders are supported; otherwise one of a border-block property is
\* pushed under a border-top or border-bottom property, one of a
\* border-inline property is registered as a pair and not pushed, and no
\* unparsed declaration of a logical property is in out.
UnparsedLowered ==
  /\ (pc = "open" /\ input # <<>> /\ LastInput.id = "Unparsed"
        /\ LastInput.val[1] \in ParsedBorderIds) =>
       IF targets.logical \/ LastInput.val[1] \notin LogicalPropertyIds
       THEN out # <<>> /\ out[Len(out)] = LastInput
       ELSE IF LastInput.val[1] \in BlockPropertyIds
       THEN /\ out # <<>>
            /\ \E id \in TopBottomIds : out[Len(out)] = with_property_id(LastInput, id)
       ELSE /\ rules # <<>>
            /\ \E l, r \in BorderPropertyIds \ LogicalPropertyIds :
                 rules[Len(rules)] = Rule(with_property_id(LastInput, l),
                                          with_property_id(LastInput, r))
  /\ ~targets.logical =>
       \A i \in 1..Len(out) :
         out[i].id = "Unparsed" => out[i].val[1] \notin LogicalPropertyIds

(***************************************************************************)
(* Properties of the functions of color.rs.                                *)
(***************************************************************************)
\* The fallback kind of the colour space a colour is written in: RGB for
\* legacy sRGB, P3 for display-p3, LAB for lab/lch, OKLAB for oklab/oklch,
\* and no kind for the other colours.
SpaceKind(c) ==
  CASE Variant(c) = "RGBA" -> RGB
    [] Variant(c) = "DisplayP3" -> P3
    [] Variant(c) \in {"LAB", "LCH"} -> LAB
    [] Variant(c) \in {"OKLAB", "OKLCH"} -> OKLAB
    [] OTHER -> 0

\* The kinds of a set of fallbacks other than its highest.
BelowHighest(fallbacks) == BitsOf(fallbacks) \ {Highest(fallbacks)}

\* C11: whenever get_fallbacks returns for a colour whose possible
\* fallbacks are not empty, the colour it leaves in place is written in the
\* colour space of the highest possible kind, and the colours it returns
\* are exactly one per remaining possible kind.
MainInHighestSpace ==
  (returned.fn = "get_fallbacks" /\ returned.possible # 0) =>
    /\ SpaceKind(returned.fallbacks.self) = Highest(returned.possible)
    /\ Len(returned.fallbacks.res) = Cardinality(BelowHighest(returned.possible))
    /\ {SpaceKind(returned.fallbacks.res[k]) : k \in DOMAIN returned.fallbacks.res}
         = BelowHighest(returned.possible)

\* The same for the colours written in lab, lch or display-p3.
MainInHighestSpaceAuthored ==
  (call.fn = "get_fallbacks" /\ Variant(call.color) \in {"LAB", "LCH", "DisplayP3"})
    => MainInHighestSpace

\* C16: whenever the fallbacks of a colour have been computed, the necessary
\* fallbacks are the possible ones without their highest kind, every
\* necessary kind is strictly lower than the highest possible kind, and
\* nothing is necessary when nothing is possible.
NecessaryBelowHighest ==
  returned.fn = "get_fallbacks" =>
    /\ BitsOf(returned.necessary) = BelowHighest(returned.possible)
    /\ \A k \in BitsOf(returned.necessary) : k < Highest(returned.possible)
    /\ returned.possible = 0 => returned.necessary = 0

\* A colour with several necessary fallbacks.
NecessaryBelowHighestWitness ==
  /\ returned.fn = "get_fallbacks"
  /\ Cardinality(BitsOf(returned.necessary)) >= 2
  /\ Highest(returned.possible) = OKLAB

\* The difference b - a of the hues interpolate left.
HueDifference == Sub(returned.hues[2], returned.hues[1])

TokenKinds == {call.tokens[i].kind : i \in 1..3} \ {"none"}

\* C18: parse_rgb_components on three components, each a number, a
\* percentage or none, succeeds exactly when the components that are not
\* none are all numbers or all percentages, and fails with InvalidValue
\* otherwise.
RgbKindsAgree ==
  returned.fn = "parse_rgb_components" =>
    /\ returned.result.ok <=> Cardinality(TokenKinds) <= 1
    /\ ~returned.result.ok => returned.result.error = "InvalidValue"

\* A number and a percentage with a none between them are refused.
RgbKindsAgreeWitness ==
  /\ returned.fn = "parse_rgb_components"
  /\ call.tokens[1].kind = "number"
  /\ call.tokens[2].kind = "none"
  /\ call.tokens[3].kind = "percentage"
  /\ ~returned.result.ok

(***************************************************************************)
(* Further properties of the handler.                                      *)
(***************************************************************************)
\* The block is the one declaration border-top-color: lab(), compiled for
\* browsers that all have display-p3 and none has lab(), and is finalized.
LabForWideGamut ==
  /\ pc = "done"
  /\ input = <<Decl("BorderTopColor", <<"lab(x)">>)>>
  /\ targets.has /\ targets.p3 = "full" /\ targets.lab = "none"

\* The colour spaces of the declarations pushed to out, in order (each
\* declaration of the block above holds one colour).
OutVariants == [k \in DOMAIN out |-> Variant(out[k].val[1])]

\* C12 as stated: the block above is emitted as border-top-color with an
\* RGB colour, then border-top-color with a display-p3 colour, and no
\* declaration holds a lab() colour.
LabLoweredToP3 ==
  LabForWideGamut =>
    /\ \A k \in DOMAIN out : out[k].id = "BorderTopColor"
    /\ OutVariants = <<"RGBA", "DisplayP3">>

\* C12: the block above is emitted as border-top-color with the display-p3
\* conversion of the colour, then border-top-color with the lab() colour as
\* written; no RGB declaration is emitted.
LabKeptAfterP3 ==
  LabForWideGamut =>
    out = << Decl("BorderTopColor", <<ToP3("lab(x)")>>),
             Decl("BorderTopColor", <<"lab(x)">>) >>

LabKeptAfterP3Witness == LabForWideGamut /\ Len(out) = 2

\* C13: handle_property and finalize never panic on a block of parsed
\* border declarations.
NoPanic == pc # "panicked"

\* The four sides of a quartet are fully valid and equal.
AllEqual(q) ==
  /\ is_valid(s[q.bs])
  /\ s[q.bs] = s[q.be] /\ s[q.bs] = s[q.is] /\ s[q.bs] = s[q.ie]

\* The sides of a quartet are all empty.
NonePending(q) == \A n \in {q.bs, q.be, q.is, q.ie} : s[n] = EmptySide

\* The property ids of the physical sides.
PhysicalPropertyIds ==
  {SideProp[n] : n \in PhysicalSides}
    \cup {LonghandId(n, f) : n \in PhysicalSides, f \in Fields} \cup RectIds

\* This step flushes the pending sides and returns.
Flushes == flushes' = 1 /\ pc' # "panicked" /\ has_any

\* C14: a flush of four fully valid, equal physical sides emits for them
\* the border shorthand with their triple and nothing else: the first
\* emission is border, no other emission is a property of the physical
\* sides, and when no logical side is pending border with its colour
\* fallbacks is all that the flush pushes.
OneBorderForEqualSides ==
  [][(Flushes /\ AllEqual(PhysicalQuartet)) =>
       /\ Len(calls') >= 1
       /\ calls'[1].id = "Border"
       /\ calls'[1].val = to_border(s.border_top)
       /\ \A k \in 2..Len(calls') : calls'[k].id \notin PhysicalPropertyIds
       /\ NonePending(LogicalQuartet) =>
            /\ Len(calls') = 1
            /\ calls'[1].pushed = Pushed("Border", to_border(s.border_top), targets)
            /\ calls'[1].rules = <<>>
            /\ SubSeq(out', 1, Len(out) + Len(calls'[1].pushed))
                 = out \o calls'[1].pushed]_vars

\* The four physical side shorthands were given the same triple, one by
\* one, and finalize has emitted one border for them.
OneBorderForEqualSidesWitness ==
  /\ pc = "done" /\ Len(input) = 4
  /\ \A k \in 1..4 : input[k] = Decl(SideProp[SideOrder[k]], input[1].val)
  /\ out = <<Decl("Border", input[1].val)>>

\* The block border-top: 1px solid red; border-right: 2px solid red;
\* border-bottom: 1px solid red; border-left: 1px solid red, finalized.
RightSideWider ==
  /\ pc = "done"
  /\ input = << Decl("BorderTop", <<"1px", "solid", "red">>),
                Decl("BorderRight", <<"2px", "solid", "red">>),
                Decl("BorderBottom", <<"1px", "solid", "red">>),
                Decl("BorderLeft", <<"1px", "solid", "red">>) >>

\* C15 as stated: the block above is emitted as border: 1px solid red, then
\* the full side shorthand border-right: 2px solid red.
RightSideShorthand ==
  RightSideWider =>
    out = << Decl("Border", <<"1px", "solid", "red">>),
             Decl("BorderRight", <<"2px", "solid", "red">>) >>

\* C15: the block above is emitted as border: 1px solid red, then the one
\* field of the right side that differs, border-right-width: 2px.
RightSideWidth ==
  RightSideWider =>
    out = << Decl("Border", <<"1px", "solid", "red">>),
             Decl("BorderRightWidth", <<"2px">>) >>

RightSideWidthWitness == RightSideWider /\ Len(out) = 2 /\ flushes = 1

\* This step emits the border shorthand.
EmitsBorder == \E k \in DOMAIN calls' : calls'[k].id = "Border"

ValidWithEqualPair(q) ==
  /\ \A n \in {q.bs, q.be, q.is, q.ie} : is_valid(s[n])
  /\ s[q.bs] = s[q.be] \/ s[q.is] = s[q.ie] \/ s[q.be] = s[q.ie]

AxisShorthandOnlyWhenSupported ==
  \A k \in DOMAIN calls : \A j \in DOMAIN calls[k].pushed :
    calls[k].pushed[j].id \in AxisShorthandIds \cup AxisLonghandIds
      => targets.logical_shorthand

\* The fields in which two side states differ.
Differing(a, b) == {f \in Fields : a[f] # b[f]}

\* The four physical sides are fully valid, the three other than `odd` are
\* equal and `odd` differs from them.
ThreeEqual(odd) ==
  /\ \A n \in PhysicalSides : is_valid(s[n])
  /\ \A n, m \in PhysicalSides \ {odd} : s[n] = s[m]
  /\ \E n \in PhysicalSides \ {odd} : s[n] # s[odd]

\* The declaration side_diff! is to emit for side `odd` against the triple
\* `common` of the other three.
OddDeclaration(odd, common) ==
  IF Cardinality(Differing(s[odd], common)) = 1
  THEN LET f == CHOOSE f \in Fields : s[odd][f] # common[f]
       IN Decl(LonghandId(odd, f), <<s[odd][f]>>)
  ELSE Decl(SideProp[odd], to_border(s[odd]))

\* C21: a flush of four fully valid physical sides of which three are equal
\* and one differs emits border with the common triple and then one
\* declaration for the differing side: the longhand of the one field that
\* differs, or the side shorthand when more than one field differs; no
\* other declaration of the flush names a physical side.
OddSideAfterBorder ==
  [][\A odd \in PhysicalSides :
       (Flushes /\ ThreeEqual(odd)) =>
         LET common == s[CHOOSE n \in PhysicalSides \ {odd} : TRUE]
         IN /\ Len(calls') >= 2
            /\ calls'[1].id = "Border" /\ calls'[1].val = to_border(common)
            /\ Decl(calls'[2].id, calls'[2].val) = OddDeclaration(odd, common)
            /\ \A k \in 3..Len(calls') : calls'[k].id \notin PhysicalPropertyIds
            /\ NonePending(LogicalQuartet) => Len(calls') = 2]_vars

\* Three side shorthands were given one triple and the left side one that
\* differs from it in two fields, and finalize has emitted border and the
\* border-left shorthand.
OddSideAfterBorderWitness ==
  /\ pc = "done" /\ Len(input) = 4
  /\ \A k \in 1..3 : input[k] = Decl(SideProp[SideOrder[k]], input[1].val)
  /\ input[4].id = "BorderLeft"
  /\ Cardinality({j \in 1..3 : input[4].val[j] # input[1].val[j]}) = 2
  /\ Len(out) = 2 /\ out[1] = Decl("Border", input[1].val) /\ out[2] = input[4]

\* handle_property has just returned from an unparsed border declaration.
UnparsedArrives ==
  /\ pc = "open" /\ pc' = "open"
  /\ Len(input') = Len(input) + 1
  /\ input'[Len(input')].id = "Unparsed"
  /\ is_border_property(input'[Len(input')].val[1])

\* C22: when an unparsed border declaration arrives, what the flush of the
\* pending sides pushes follows the earlier output and precedes the unparsed
\* declaration, which is the last thing pushed to out (or, for an inline
\* side without logical borders in the targets, the last rule registered);
\* all eight sides are empty afterwards.
UnparsedAfterPending ==
  [][UnparsedArrives =>
       LET u == input'[Len(input')]
           n == Len(out) + Len(Flatten(calls'))
       IN /\ s' = AllEmpty /\ ~has_any' /\ ret'
          /\ has_any => flushes' = 1 /\ Len(calls') > 0
          /\ ~has_any => calls' = <<>>
          /\ Len(out') >= n
          /\ SubSeq(out', 1, n) = out \o Flatten(calls')
          /\ IF Len(out') = n + 1
             THEN /\ out'[n + 1].id = "Unparsed"
                  /\ out'[n + 1].val[2] = u.val[2]
                  /\ targets.logical => out'[n + 1] = u
             ELSE /\ Len(out') = n
                  /\ ~targets.logical
                  /\ u.val[1] \in DOMAIN UnparsedInlineLowering
                  /\ rules' # <<>>
                  /\ rules'[Len(rules')].ltr.id = "Unparsed"
                  /\ rules'[Len(rules')].ltr.val[2] = u.val[2]]_vars

\* border-top: 1px solid red was pending when an unparsed border-color
\* arrived: out holds border-top and then the unparsed declaration.
UnparsedAfterPendingWitness ==
  /\ pc = "open" /\ Len(input) = 2
  /\ input[1] = Decl("BorderTop", BaseTriple)
  /\ input[2] = Unparsed("BorderColor", "var(--x)")
  /\ out = <<input[1], input[2]>>
  /\ s = AllEmpty

\* handle_property has returned from the last declaration of input.
Handled == pc = "open" /\ input # <<>>

\* C23 as stated: after every call of handle_property that returns true,
\* has_any is true.
AcceptedSetsHasAny == (Handled /\ ret) => has_any

\* C23: handle_property returns true with has_any true for every parsed
\* border declaration (a longhand, a side, axis or four-side shorthand, or
\* border), and returns true with has_any false for an unparsed border
\* declaration, whose flush has left nothing pending.
ParsedSetsHasAny ==
  Handled =>
    /\ LastInput.id \in ParsedBorderIds => ret /\ has_any
    /\ (LastInput.id = "Unparsed" /\ is_border_property(LastInput.val[1]))
         => ret /\ ~has_any

\* A longhand was accepted and then an unparsed border declaration, which
\* flushed it: handle_property returned true and nothing is pending.
ParsedSetsHasAnyWitness ==
  /\ Handled /\ Len(input) = 2 /\ ret /\ ~has_any
  /\ input[1].id \in LonghandIds
  /\ input[2].id = "Unparsed" /\ is_border_property(input[2].val[1])
  /\ flushes = 1

\* handle_property has just returned from a four-side shorthand.
RectArrives ==
  /\ pc = "open" /\ pc' = "open"
  /\ Len(input') = Len(input) + 1
  /\ input'[Len(input')].id \in RectIds

\* C24: handling border-width, border-style or border-color sets that field
\* of the top, right, bottom and left sides to the four values of the
\* rectangle, sets it to absent in the four logical sides, and leaves the two
\* other fields of all eight sides as they were; nothing is flushed and the
\* category is kept.
RectWritesOneField ==
  [][RectArrives =>
       LET p == input'[Len(input')]
           key == FieldOf(p.id)
       IN /\ s'["border_top"][key] = p.val[1]
          /\ s'["border_right"][key] = p.val[2]
          /\ s'["border_bottom"][key] = p.val[3]
          /\ s'["border_left"][key] = p.val[4]
          /\ \A n \in LogicalSides : s'[n][key] = Absent
          /\ \A n \in SideNames : \A f \in Fields \ {key} : s'[n][f] = s[n][f]
          /\ flushes' = 0 /\ out' = out /\ rules' = rules
          /\ category' = category /\ has_any' /\ ret']_vars

\* border-width arrived after border-inline-start: the width of the
\* inline-start side is absent and its style and color are kept.
RectWritesOneFieldWitness ==
  /\ pc = "open" /\ Len(input) = 2
  /\ input[1].id = "BorderInlineStart" /\ input[2].id = "BorderWidth"
  /\ s["border_inline_start"] =
       [width |-> Absent, style |-> input[1].val[2], color |-> input[1].val[3]]
  /\ s["border_top"] = [width |-> input[2].val[1], style |-> Absent, color |-> Absent]
  /\ category = "Logical"

\* handle_property or finalize has returned: the handler is between calls.
BetweenCalls == pc \in {"open", "done"}

\* At least one of the 24 fields of the eight sides is present.
AnyFieldPresent == \E n \in SideNames, f \in Fields : s[n][f] # Absent

\* C29: between calls of the handler, has_any is true exactly when at least
\* one field of the eight sides is present.
HasAnyIffPending == BetweenCalls => (has_any <=> AnyFieldPresent)

\* A field is pending with has_any true, and after a flush none is and
\* has_any is false.
HasAnyIffPendingWitness ==
  /\ pc = "open" /\ Len(input) = 2 /\ flushes = 1
  /\ has_any /\ AnyFieldPresent
  /\ input[1].id \in RectIds

\* What a flush of the pending fields of the given sides alone would call
\* prop! with, in order.
FlushOf(sides) ==
  Flush([Handler EXCEPT !.s = [n \in SideNames |->
                                 IF n \in sides THEN s[n] ELSE EmptySide],
                        !.calls = <<>>, !.has_any = TRUE], targets).calls

\* C30: between calls of the handler the four logical sides are empty
\* whenever the category is not Logical, so that physical and logical
\* fields are pending together only under the category Logical.
LogicalOnlyWhenLogical ==
  BetweenCalls =>
    (category # "Logical" => \A n \in LogicalSides : s[n] = EmptySide)

\* C30, the order of a flush: what a flush emits is what it emits for the
\* physical sides followed by what it emits for the logical sides.
PhysicalBeforeLogical ==
  [][Flushes => calls' = FlushOf(PhysicalSides) \o FlushOf(LogicalSides)]_vars

\* C30: the invariant and the order of the flush together.
LogicalSidesUnderLogical == []LogicalOnlyWhenLogical /\ PhysicalBeforeLogical

\* border-style arrived after border-block-start-width, both were pending
\* under the category Logical, and finalize has emitted border-style first.
LogicalSidesUnderLogicalWitness ==
  /\ pc = "done" /\ Len(input) = 2 /\ targets.logical
  /\ input[1].id = "BorderBlockStartWidth" /\ input[2].id = "BorderStyle"
  /\ out = <<input[2], input[1]>>

\* The invocations of prop! a flush called now would make, each <<id, val>>
\* with val built by to_border or by unwraps of fields.
Invocations ==
  FlushCategory(FlushCategory([Handler EXCEPT !.props = <<>>],
                              PhysicalQuartet, FALSE, targets),
                LogicalQuartet, TRUE, targets).props

\* C27: in every state with fields pending that the handler can be in
\* between calls, for every target, no invocation of prop! of a flush holds
\* the unwrap of an absent field: to_border and the unwraps of width, style
\* and color are reached only with the fields present.
NoAbsentUnwrap ==
  (BetweenCalls /\ has_any) =>
    \A k \in DOMAIN Invocations :
      \A i \in DOMAIN Invocations[k][2] : Invocations[k][2][i] # Absent

\* A flush has emitted border-style and then the shorthands of sides whose
\* style the four-side shorthand had consumed.
NoAbsentUnwrapWitness ==
  /\ pc = "done" /\ Len(calls) >= 2
  /\ calls[1].id \in RectIds
  /\ \E k \in 2..Len(calls) : calls[k].id \in LonghandIds

(***************************************************************************)
(* Further properties of the functions of color.rs.                        *)
(***************************************************************************)
\* C25 as stated: resolve_missing replaces a NaN component by 0 and leaves
\* the others, and keeps a NaN alpha NaN.
AlphaStaysMissing ==
  returned.fn = "resolve_missing" =>
    /\ \A k \in {"a", "b", "c"} :
         returned.color[k] = IF call.color[k].nan THEN Float(0) ELSE call.color[k]
    /\ call.color.alpha.nan => returned.color.alpha.nan

\* C25: resolve_missing replaces each of the three components and the
\* alpha by 0 when it is NaN and leaves it otherwise, so that no NaN is left.
MissingResolvedToZero ==
  returned.fn = "resolve_missing" =>
    \A k \in {"a", "b", "c", "alpha"} :
      /\ returned.color[k] = IF call.color[k].nan THEN Float(0) ELSE call.color[k]
      /\ ~returned.color[k].nan

\* A colour with a NaN alpha and a component that is a number.
MissingResolvedToZeroWitness ==
  /\ returned.fn = "resolve_missing"
  /\ call.color.alpha.nan /\ call.color.a = Float(1)
  /\ returned.color.alpha = Float(0) /\ returned.color.a = Float(1)

\* The four bytes of a value have equal high and low digits.
EqualHalves(v) == \A j \in 1..(HexWidth \div 2) : v[2 * j - 1] = v[2 * j]

\* C26: expand_hex(compact_hex(v)) is v exactly when each of the four bytes
\* of v has equal high and low halves, and to_css writes the short form of
\* a hex colour exactly then.
ShortHexExact ==
  returned.fn = "compact_hex" =>
    /\ (returned.expanded = call.v) <=> EqualHalves(call.v)
    /\ returned.short <=> EqualHalves(call.v)

\* 0xffaa00aa is compacted to 0xfa0a and expanded to itself.
ShortHexExactWitness ==
  /\ returned.fn = "compact_hex"
  /\ call.v = <<15, 15, 10, 10, 0, 0, 10, 10>>
  /\ returned.compact = <<0, 0, 0, 0, 15, 10, 0, 10>>
  /\ returned.expanded = call.v
  /\ returned.short

\* The colour is written in a space every target supports: oklab or oklch
\* with OKLab colors, lab or lch with Lab colors, display-p3 with P3 colors,
\* another predefined space with the color() function.
OwnSpaceCompatible(c, T) ==
  \/ Variant(c) \in {"OKLAB", "OKLCH"} /\ T.oklab
  \/ Variant(c) \in {"LAB", "LCH"} /\ T.lab = "full"
  \/ Variant(c) = "DisplayP3" /\ T.p3 = "full"
  \/ Variant(c) = "Rec2020" /\ T.color_function

\* C28: for a colour whose own space every target supports, get_fallbacks
\* returns no fallback and leaves the colour as it is.
NoFallbackWhenCompatible ==
  (returned.fn = "get_fallbacks" /\ OwnSpaceCompatible(call.color, call.targets)) =>
    /\ returned.fallbacks.res = <<>>
    /\ returned.fallbacks.self = call.color
    /\ returned.necessary = 0

\* An oklab() colour for targets with OKLab colors and neither Lab nor P3
\* colors has no fallback.
NoFallbackWhenCompatibleWitness ==
  /\ returned.fn = "get_fallbacks"
  /\ Variant(call.color) = "OKLAB"
  /\ call.targets.oklab /\ call.targets.lab = "none" /\ call.targets.p3 = "none"
  /\ returned.fallbacks.res = <<>>

====
